---------------------------- MODULE Spec2Model ----------------------------
(***************************************************************************)
(* Regular expressions and finite automata: Thompson construction          *)
(* (03-RegExp-2-NFA.ts), subset construction (01-NFA-2-DFA.ts),            *)
(* Myhill-Nerode minimisation (07-Minimize.ts), state elimination          *)
(* (05-DFA-2-RegExp.ts) and the equivalence check (09-Equivalence.ts).     *)
(*                                                                         *)
(* Representation.  A RecursiveSet is a TLA+ set, a Map is a TLA+ function *)
(* whose DOMAIN is the set of keys present (Map.get yields undefined       *)
(* exactly for a key outside the DOMAIN).  Every value stored in a         *)
(* transition map is a RecursiveSet or a Tuple object, hence truthy in     *)
(* JavaScript even when it is the empty set: `if (target)` is the test     *)
(* `key \in DOMAIN delta`.  The symbol 'ε' is written "eps".  A regular    *)
(* expression is the tuple of the source with the operator moved to the    *)
(* front: 0 is <<"0">>, 'ε' is <<"eps">>, a letter c is <<"chr", c>>,      *)
(* [r,'*'] is <<"*", r>>, [l,'⋅',r] is <<"cat", l, r>> and [l,'+',r] is    *)
(* <<"+", l, r>>.                                                          *)
(***************************************************************************)
EXTENDS Integers, Sequences, FiniteSets, TLC

VARIABLES pc, r, r2, nfa, dfa, mdfa, mdfa2, re, eq, eqSw, states, queue,
          current, iterations, warned,
          dfa2, prod, reachSet, empty, witness,
          input, tokens, parsed,
          arg1, arg2, op,
          separable, rounds,
          rule, subst, matched,
          heap, callee, args, ret, stateCount,
          startSet, fixedPoint

vars == <<pc, r, r2, nfa, dfa, mdfa, mdfa2, re, eq, eqSw, states, queue,
          current, iterations, warned,
          dfa2, prod, reachSet, empty, witness,
          input, tokens, parsed,
          arg1, arg2, op,
          separable, rounds,
          rule, subst, matched,
          heap, callee, args, ret, stateCount,
          startSet, fixedPoint>>

\* the arguments of a direct call of a combinator
combineVars == <<arg1, arg2, op>>

\* the variables of the later sections, and their values while unused
\* the set Separable of allSeparable and the number of passes of its loop
separableVars == <<separable, rounds>>

\* the rule of one call of rewrite, the substitution match leaves and its
\* verdict
rewriteVars == <<rule, subst, matched>>

\* the objects of the program, the function called, the references passed
\* to it, the reference it returns and the counter of the StateGenerator
heapVars == <<heap, callee, args, ret, stateCount>>

\* the start set handed to allStates and allStatesFixedPoint and the set
\* the latter returns
fixedPointVars == <<startSet, fixedPoint>>

extraVars ==
  <<combineVars, separableVars, rewriteVars, heapVars, fixedPointVars>>
\* the variables of the parser
parserVars == <<input, tokens, parsed>>

\* the variables of the product automaton and of its emptiness test
productVars == <<dfa2, prod, reachSet, empty, witness>>

\* the variables of simplify
simplifyVars == <<current, iterations, warned>>

(***************************************************************************)
(* Bounds of the model                                                     *)
(***************************************************************************)
\* regular expressions of the pipeline have at most MaxSize nodes
MaxSize == 4
\* words are checked up to this length
MaxWordLen == 5

\* regular expressions of the round trip have at most MaxSizeRoundTrip nodes
MaxSizeRoundTrip == 4
\* regular expressions compared by regExpEquiv have at most MaxSizeEq nodes
MaxSizeEq == 3
\* the automata drawn at will have at most MaxStates states
MaxStates == 3
\* the automata of the subset construction have MaxNfaStates states and at
\* most MaxEdges edges
MaxNfaStates == 3
MaxEdges == 4
\* regular expressions given to simplify have at most MaxSizeSimplify nodes
MaxSizeSimplify == 5
\* the trees on which the loop of simplify is followed to its end have at most
\* MaxSizeLoop nodes
MaxSizeLoop == 4
\* the two automata of a product have MaxProductStates states each
MaxProductStates == 2
\* the automata tested for emptiness have MaxEmptyStates states
MaxEmptyStates == 3
\* the strings handed to the parser have at most MaxInputLen characters
MaxInputLen == 4
\* the automata handed to a combinator directly come from trees of at most
\* MaxSizeCombine nodes
MaxSizeCombine == 2

\* the alphabet of every automaton of the model
Sigma == {"a", "b"}

None == <<"none">>

\* a call that ended with an exception
Thrown(msgs) == [thrown |-> msgs]

hasThrown(res) == "thrown" \in DOMAIN res

CombineIdle == arg1 = None /\ arg2 = None /\ op = ""
SeparableIdle == separable = {} /\ rounds = 0
RewriteIdle == rule = 0 /\ subst = <<>> /\ matched = FALSE
HeapIdle ==
  heap = <<>> /\ callee = "" /\ args = <<>> /\ ret = 0 /\ stateCount = 0
FixedPointIdle == startSet = {} /\ fixedPoint = {}
ExtraIdle ==
  /\ CombineIdle /\ SeparableIdle /\ RewriteIdle /\ HeapIdle
  /\ FixedPointIdle

(***************************************************************************)
(* Generic helpers                                                         *)
(***************************************************************************)
\* a set in its iteration order, as a sequence
RECURSIVE SetToSeq(_)
SetToSeq(S) ==
  IF S = {} THEN <<>>
  ELSE LET x == CHOOSE y \in S : TRUE IN <<x>> \o SetToSeq(S \ {x})

\* the pairs (q, c) in the order of `for q of Q { for c of Sigma`
RECURSIVE pairsInOrder(_, _)
pairsInOrder(qs, cs) ==
  IF qs = <<>> THEN <<>>
  ELSE [i \in 1..Len(cs) |-> <<Head(qs), cs[i]>>] \o pairsInOrder(Tail(qs), cs)

\* the orders in which the elements of S can be iterated
Orders(S) ==
  {s \in [1..Cardinality(S) -> S] :
     \A i, j \in 1..Cardinality(S) : i # j => s[i] # s[j]}

\* a sequence back to front
Reverse(s) == [i \in 1..Len(s) |-> s[Len(s) + 1 - i]]

\* Map.set(k, v): the entry of k is created or replaced
MapSet(m, k, v) == (k :> v) @@ m

\* a map written entry by entry, as a table that is built once
Table(f) == f @@ <<>>

\* new Map()
EmptyMap == <<>>

(***************************************************************************)
(* Regular expressions                                                     *)
(***************************************************************************)
EmptySet == <<"0">>
Epsilon == <<"eps">>
CharNode(c) == <<"chr", c>>
Star(x) == <<"*", x>>
Concat(l, x) == <<"cat", l, x>>
Union(l, x) == <<"+", l, x>>

\* all regular expressions over Sigma with exactly n nodes
RECURSIVE RegExpOfSize(_)
RegExpOfSize(n) ==
  IF n <= 0 THEN {}
  ELSE IF n = 1 THEN {EmptySet, Epsilon} \cup {CharNode(c) : c \in Sigma}
  ELSE {Star(x) : x \in RegExpOfSize(n - 1)}
       \cup UNION { UNION { {Concat(l, x), Union(l, x)} :
                              l \in RegExpOfSize(k), x \in RegExpOfSize(n - 1 - k) } :
                    k \in 1..(n - 2) }

RegExpUpTo(n) == UNION {RegExpOfSize(k) : k \in 1..n}

\* all words over Sigma of length at most n
WordsUpTo(n) == UNION {[1..k -> Sigma] : k \in 0..n}
Words == WordsUpTo(MaxWordLen)

\* the language of a regular expression: w \in L(x)
RECURSIVE InLang(_, _)
InLang(x, w) ==
  CASE x[1] = "0"   -> FALSE
    [] x[1] = "eps" -> w = <<>>
    [] x[1] = "chr" -> w = <<x[2]>>
    [] x[1] = "cat" -> \E i \in 0..Len(w) :
                          /\ InLang(x[2], SubSeq(w, 1, i))
                          /\ InLang(x[3], SubSeq(w, i + 1, Len(w)))
    [] x[1] = "+"   -> InLang(x[2], w) \/ InLang(x[3], w)
    [] x[1] = "*"   -> \/ w = <<>>
                       \/ \E i \in 1..Len(w) :
                            /\ InLang(x[2], SubSeq(w, 1, i))
                            /\ InLang(x, SubSeq(w, i + 1, Len(w)))

Lang(x) == {w \in Words : InLang(x, w)}

(***************************************************************************)
(* 03-RegExp-2-NFA.ts: Thompson construction                               *)
(***************************************************************************)
\* key(q, c): the map key of state q and symbol c.  The source builds the
\* string `${q.toString()},${c}`; RecursiveSet.toString prints the elements
\* in sorted order, so equal sets give equal keys, and the symbol after the
\* last comma is a single character, so distinct pairs give distinct keys.
key(q, c) == <<q, c>>

\* getOnlyElement(S): the first element of the (sorted) set
getOnlyElement(S) == CHOOSE s \in S : \A t \in S : s <= t

\* each generator returns the automaton and the advanced state counter
genEmptyNFA(gen, Sig) ==
  LET q0 == gen + 1
      q1 == gen + 2
  IN [nfa |-> [Q |-> {q0, q1}, Sigma |-> Sig, delta |-> EmptyMap,
               q0 |-> q0, A |-> {q1}],
      gen |-> gen + 2]

genEpsilonNFA(gen, Sig) ==
  LET q0 == gen + 1
      q1 == gen + 2
  IN [nfa |-> [Q |-> {q0, q1}, Sigma |-> Sig,
               delta |-> MapSet(EmptyMap, key(q0, "eps"), {q1}),
               q0 |-> q0, A |-> {q1}],
      gen |-> gen + 2]

genCharNFA(gen, Sig, c) ==
  LET q0 == gen + 1
      q1 == gen + 2
  IN [nfa |-> [Q |-> {q0, q1}, Sigma |-> Sig,
               delta |-> MapSet(EmptyMap, key(q0, c), {q1}),
               q0 |-> q0, A |-> {q1}],
      gen |-> gen + 2]

\* the entries of d1, then the entries of d2 written over them
copyDelta(d1, d2) == d2 @@ d1

\* catenate that keeps the accepting state of f1 as well
catenateKeepAccepting(gen, f1, f2) ==
  LET q1 == f1.q0
      q3 == f2.q0
      q2 == getOnlyElement(f1.A)
      delta == MapSet(copyDelta(f1.delta, f2.delta), key(q2, "eps"), {q3})
  IN [nfa |-> [Q |-> f1.Q \cup f2.Q, Sigma |-> f1.Sigma, delta |-> delta,
               q0 |-> q1, A |-> f1.A \cup f2.A],
      gen |-> gen]

catenate(gen, f1, f2) ==
  LET q1 == f1.q0
      q3 == f2.q0
      q2 == getOnlyElement(f1.A)
      delta == MapSet(copyDelta(f1.delta, f2.delta), key(q2, "eps"), {q3})
  IN [nfa |-> [Q |-> f1.Q \cup f2.Q, Sigma |-> f1.Sigma, delta |-> delta,
               q0 |-> q1, A |-> f2.A],
      gen |-> gen]

\* disjunction that takes its two states from a copy of the counter, so that
\* the caller's generator hands them out again
disjunctionKeepCounter(gen, f1, f2) ==
  LET q1 == f1.q0
      q2 == f2.q0
      q3 == getOnlyElement(f1.A)
      q4 == getOnlyElement(f2.A)
      q0 == gen + 1
      q5 == gen + 2
      d0 == copyDelta(f1.delta, f2.delta)
      d1 == MapSet(d0, key(q0, "eps"), {q1, q2})
      d2 == MapSet(d1, key(q3, "eps"), {q5})
      d3 == MapSet(d2, key(q4, "eps"), {q5})
  IN [nfa |-> [Q |-> f1.Q \cup f2.Q \cup {q0, q5}, Sigma |-> f1.Sigma,
               delta |-> d3, q0 |-> q0, A |-> {q5}],
      gen |-> gen]

disjunction(gen, f1, f2) ==
  LET q1 == f1.q0
      q2 == f2.q0
      q3 == getOnlyElement(f1.A)
      q4 == getOnlyElement(f2.A)
      q0 == gen + 1
      q5 == gen + 2
      d0 == copyDelta(f1.delta, f2.delta)
      d1 == MapSet(d0, key(q0, "eps"), {q1, q2})
      d2 == MapSet(d1, key(q3, "eps"), {q5})
      d3 == MapSet(d2, key(q4, "eps"), {q5})
  IN [nfa |-> [Q |-> f1.Q \cup f2.Q \cup {q0, q5}, Sigma |-> f1.Sigma,
               delta |-> d3, q0 |-> q0, A |-> {q5}],
      gen |-> gen + 2]

\* kleene without the edge that skips the loop
kleeneNoSkip(gen, f) ==
  LET q1 == f.q0
      q2 == getOnlyElement(f.A)
      q0 == gen + 1
      q3 == gen + 2
      d1 == MapSet(f.delta, key(q0, "eps"), {q1})
      d2 == MapSet(d1, key(q2, "eps"), {q1, q3})
  IN [nfa |-> [Q |-> {q0, q3} \cup f.Q, Sigma |-> f.Sigma, delta |-> d2,
               q0 |-> q0, A |-> {q3}],
      gen |-> gen + 2]

kleene(gen, f) ==
  LET q1 == f.q0
      q2 == getOnlyElement(f.A)
      q0 == gen + 1
      q3 == gen + 2
      targets == {q1, q3}
      d1 == MapSet(f.delta, key(q0, "eps"), targets)
      d2 == MapSet(d1, key(q2, "eps"), targets)
  IN [nfa |-> [Q |-> {q0, q3} \cup f.Q, Sigma |-> f.Sigma, delta |-> d2,
               q0 |-> q0, A |-> {q3}],
      gen |-> gen + 2]

\* RegExp2NFA.toNFA with the StateGenerator threaded through the recursion;
\* JavaScript evaluates the left operand's automaton before the right one's
RECURSIVE toNFAGen(_, _, _)
toNFAGen(x, gen, Sig) ==
  CASE x[1] = "0"   -> genEmptyNFA(gen, Sig)
    [] x[1] = "eps" -> genEpsilonNFA(gen, Sig)
    [] x[1] = "chr" -> genCharNFA(gen, Sig, x[2])
    [] x[1] = "*"   -> LET f == toNFAGen(x[2], gen, Sig)
                       IN kleene(f.gen, f.nfa)
    [] x[1] = "cat" -> LET f1 == toNFAGen(x[2], gen, Sig)
                           f2 == toNFAGen(x[3], f1.gen, Sig)
                       IN catenate(f2.gen, f1.nfa, f2.nfa)
    [] x[1] = "+"   -> LET f1 == toNFAGen(x[2], gen, Sig)
                           f2 == toNFAGen(x[3], f1.gen, Sig)
                       IN disjunction(f2.gen, f1.nfa, f2.nfa)

\* the automata returned by the calls of toNFA made while toNFA(x) runs with
\* the generator at gen, the outermost call included: the automata handed to
\* kleene, catenate and disjunction are among them
RECURSIVE toNFACalls(_, _, _)
toNFACalls(x, gen, Sig) ==
  {toNFAGen(x, gen, Sig).nfa}
    \cup (CASE x[1] \in {"0", "eps", "chr"} -> {}
            [] x[1] = "*" -> toNFACalls(x[2], gen, Sig)
            [] OTHER -> toNFACalls(x[2], gen, Sig)
                          \cup toNFACalls(x[3], toNFAGen(x[2], gen, Sig).gen,
                                          Sig))

\* the calls of kleene, catenate and disjunction made while toNFA(x) runs
\* with the generator at gen: the function, the counter it finds and the
\* automata handed to it (kleene has one argument, given as f1 and f2)
RECURSIVE combinatorCalls(_, _, _)
combinatorCalls(x, gen, Sig) ==
  CASE x[1] \in {"0", "eps", "chr"} -> {}
    [] x[1] = "*" ->
         LET f == toNFAGen(x[2], gen, Sig)
         IN combinatorCalls(x[2], gen, Sig)
              \cup {[fn |-> "kleene", gen |-> f.gen,
                     f1 |-> f.nfa, f2 |-> f.nfa]}
    [] OTHER ->
         LET f1 == toNFAGen(x[2], gen, Sig)
             f2 == toNFAGen(x[3], f1.gen, Sig)
         IN combinatorCalls(x[2], gen, Sig)
              \cup combinatorCalls(x[3], f1.gen, Sig)
              \cup {[fn |-> IF x[1] = "cat" THEN "catenate"
                            ELSE "disjunction",
                     gen |-> f2.gen, f1 |-> f1.nfa, f2 |-> f2.nfa]}

\* the keys a call writes with delta.set after it has copied the maps of its
\* arguments, in the order of the writes
setKeys(c) ==
  CASE c.fn = "catenate" -> <<key(getOnlyElement(c.f1.A), "eps")>>
    [] c.fn = "disjunction" ->
         <<key(c.gen + 1, "eps"), key(getOnlyElement(c.f1.A), "eps"),
           key(getOnlyElement(c.f2.A), "eps")>>
    [] c.fn = "kleene" ->
         <<key(c.gen + 1, "eps"), key(getOnlyElement(c.f1.A), "eps")>>

\* the throw of getOnlyElement: the for loop returns the first element, and
\* the statement after it is reached on the empty set alone
getOnlyElementThrows(S) == S = {}

\* a call of catenate, disjunction or kleene with its exception; catenate
\* asks for the only element of f1.A, disjunction of f1.A and f2.A, kleene
\* of f.A
callCombinator(o, gen, a1, a2) ==
  CASE o = "catenate" ->
         IF getOnlyElementThrows(a1.A) THEN Thrown({"Unreachable"})
         ELSE catenate(gen, a1, a2).nfa
    [] o = "disjunction" ->
         IF getOnlyElementThrows(a1.A) \/ getOnlyElementThrows(a2.A)
           THEN Thrown({"Unreachable"})
         ELSE disjunction(gen, a1, a2).nfa
    [] o = "kleene" ->
         IF getOnlyElementThrows(a1.A) THEN Thrown({"Unreachable"})
         ELSE kleene(gen, a1).nfa

\* new RegExp2NFA(Sigma).toNFA(x): a fresh generator starts at 0
toNFA(x, Sig) == toNFAGen(x, 0, Sig).nfa

(***************************************************************************)
(* 01-NFA-2-DFA.ts: subset construction                                    *)
(***************************************************************************)
bigUnion(sets) == UNION sets

RECURSIVE epsClosureLoop(_, _)
epsClosureLoop(result, delta) ==
  LET setsToUnite == {delta[key(q, "eps")] :
                        q \in {p \in result : key(p, "eps") \in DOMAIN delta}}
      newStates == bigUnion(setsToUnite)
  IN IF newStates \subseteq result THEN result
     ELSE epsClosureLoop(result \cup newStates, delta)

epsClosure(s, delta) == epsClosureLoop({s}, delta)

deltaHat(s, c, delta) ==
  IF key(s, c) \notin DOMAIN delta THEN {}
  ELSE bigUnion({epsClosure(q, delta) : q \in delta[key(s, c)]})

capitalDelta(M, c, delta) == bigUnion({deltaHat(q, c, delta) : q \in M})

\* the for loop over Sigma of one worklist iteration of allStates
RECURSIVE allStatesSigma(_, _, _, _)
allStatesSigma(acc, cs, M, delta) ==
  IF cs = <<>> THEN acc
  ELSE LET N == capitalDelta(M, Head(cs), delta)
       IN allStatesSigma(
            IF N \notin acc.states
              THEN [states |-> acc.states \cup {N}, queue |-> Append(acc.queue, N)]
              ELSE acc,
            Tail(cs), M, delta)

\* one iteration that pushes every target, without the states.has test
allStatesStepPushAll(sts, que, delta, Sig) ==
  LET cs == SetToSeq(Sig)
      Ns == [i \in 1..Len(cs) |-> capitalDelta(Head(que), cs[i], delta)]
  IN [states |-> sts \cup {Ns[i] : i \in 1..Len(cs)}, queue |-> Tail(que) \o Ns]

\* one iteration of the while loop of allStates: queue.shift() and the for loop
allStatesStep(sts, que, delta, Sig) ==
  allStatesSigma([states |-> sts, queue |-> Tail(que)], SetToSeq(Sig), Head(que), delta)

RECURSIVE allStatesLoop(_, _, _, _)
allStatesLoop(sts, que, delta, Sig) ==
  IF Len(que) = 0 THEN sts
  ELSE LET nxt == allStatesStep(sts, que, delta, Sig)
       IN allStatesLoop(nxt.states, nxt.queue, delta, Sig)

allStates(Q0, delta, Sig) == allStatesLoop({Q0}, <<Q0>>, delta, Sig)

\* allStatesFixedPoint that returns after the first pass of its loop
allStatesFixedPointOnePass(Q0, delta, Sig) ==
  {Q0} \cup {capitalDelta(Q0, c, delta) : c \in Sig}

\* the while (true) loop of allStatesFixedPoint
RECURSIVE allStatesFixedPointLoop(_, _, _)
allStatesFixedPointLoop(result, delta, Sig) ==
  LET newStates == {capitalDelta(M, c, delta) : M \in result, c \in Sig}
  IN IF newStates \subseteq result THEN result
     ELSE allStatesFixedPointLoop(result \cup newStates, delta, Sig)

allStatesFixedPoint(Q0, delta, Sig) ==
  allStatesFixedPointLoop({Q0}, delta, Sig)

\* steps 3 and 4 with the accepting states taken as the subsets of A
nfa2dfaFromSubsets(n, newStart, newStates) ==
  LET newDelta == Table([k \in {key(M, c) : M \in newStates, c \in n.Sigma} |->
                           capitalDelta(k[1], k[2], n.delta)])
      newFinal == {M \in newStates : M \subseteq n.A}
  IN [Q |-> newStates, Sigma |-> n.Sigma, delta |-> newDelta,
      q0 |-> newStart, A |-> newFinal]

\* steps 3 and 4 of nfa2dfa: the table and the accepting states
nfa2dfaFrom(n, newStart, newStates) ==
  LET newDelta == Table([k \in {key(M, c) : M \in newStates, c \in n.Sigma} |->
                           capitalDelta(k[1], k[2], n.delta)])
      newFinal == {M \in newStates : (M \cap n.A) # {}}
  IN [Q |-> newStates, Sigma |-> n.Sigma, delta |-> newDelta,
      q0 |-> newStart, A |-> newFinal]

\* nfa2dfa that leaves an empty target out of the table
nfa2dfaOmitEmpty(n) ==
  LET newStart == epsClosure(n.q0, n.delta)
      newStates == allStates(newStart, n.delta, n.Sigma)
      newDelta == Table([k \in {kk \in {key(M, c) : M \in newStates, c \in n.Sigma} :
                                  capitalDelta(kk[1], kk[2], n.delta) # {}} |->
                           capitalDelta(k[1], k[2], n.delta)])
      newFinal == {M \in newStates : (M \cap n.A) # {}}
  IN [Q |-> newStates, Sigma |-> n.Sigma, delta |-> newDelta,
      q0 |-> newStart, A |-> newFinal]

nfa2dfa(n) ==
  LET newStart == epsClosure(n.q0, n.delta)
      newStates == allStates(newStart, n.delta, n.Sigma)
  IN nfa2dfaFrom(n, newStart, newStates)

\* allStates with the alphabet iterated in the order cs
RECURSIVE allStatesLoopIn(_, _, _, _)
allStatesLoopIn(sts, que, delta, cs) ==
  IF Len(que) = 0 THEN sts
  ELSE LET nxt == allStatesSigma([states |-> sts, queue |-> Tail(que)],
                                 cs, Head(que), delta)
       IN allStatesLoopIn(nxt.states, nxt.queue, delta, cs)

\* allStates that follows the first symbol of the order only
allStatesFirstSymbol(Q0, delta, cs) ==
  allStatesLoopIn({Q0}, <<Q0>>, delta, <<Head(cs)>>)

allStatesIn(Q0, delta, cs) == allStatesLoopIn({Q0}, <<Q0>>, delta, cs)

\* newDelta.set(key(M, c), capitalDelta(M, c)) pair by pair
RECURSIVE tableIn(_, _, _)
tableIn(acc, pairs, delta) ==
  IF pairs = <<>> THEN acc
  ELSE LET M == Head(pairs)[1]
           c == Head(pairs)[2]
       IN tableIn(MapSet(acc, key(M, c), capitalDelta(M, c, delta)),
                  Tail(pairs), delta)

\* nfa2dfa with the alphabet iterated in the order cs and the composite
\* states in their order or, when backwards is set, in the opposite order
nfa2dfaIn(n, cs, backwards) ==
  LET newStart == epsClosure(n.q0, n.delta)
      newStates == allStatesIn(newStart, n.delta, cs)
      Ms == IF backwards THEN Reverse(SetToSeq(newStates))
            ELSE SetToSeq(newStates)
      newDelta == tableIn(EmptyMap, pairsInOrder(Ms, cs), n.delta)
      newFinal == {Ms[i] : i \in {j \in 1..Len(Ms) : (Ms[j] \cap n.A) # {}}}
  IN [Q |-> newStates, Sigma |-> n.Sigma, delta |-> newDelta,
      q0 |-> newStart, A |-> newFinal]

(***************************************************************************)
(* 07-Minimize.ts: Myhill-Nerode minimisation                              *)
(***************************************************************************)
\* arb(M): the first element in the iteration order of the set
arb(M) == CHOOSE x \in M : TRUE

cartProd(A, B) == A \X B

\* separate that compares the targets of two different symbols
separateAcrossSymbols(Pairs, States, Sig, delta) ==
  {pair \in States \X States :
     \E c \in Sig, c2 \in Sig :
        /\ key(pair[1], c) \in DOMAIN delta
        /\ key(pair[2], c2) \in DOMAIN delta
        /\ <<delta[key(pair[1], c)], delta[key(pair[2], c2)]>> \in Pairs}

separate(Pairs, States, Sig, delta) ==
  {pair \in States \X States :
     \E c \in Sig :
        /\ key(pair[1], c) \in DOMAIN delta
        /\ key(pair[2], c) \in DOMAIN delta
        /\ <<delta[key(pair[1], c)], delta[key(pair[2], c)]>> \in Pairs}

\* the first class, in iteration order, that contains p
findEquivalenceClass(p, Partition) ==
  LET hits == SelectSeq(SetToSeq(Partition), LAMBDA C : p \in C)
  IN Head(hits)

RECURSIVE allSeparableLoop(_, _, _, _)
allSeparableLoop(Separable, Q, Sig, delta) ==
  LET NewPairs == separate(Separable, Q, Sig, delta)
  IN IF NewPairs \subseteq Separable THEN Separable
     ELSE allSeparableLoop(Separable \cup NewPairs, Q, Sig, delta)

\* allSeparable without the fixed-point loop: the initial pairs alone
allSeparableNoLoop(Q, A, Sig, delta) ==
  LET NonAccepting == {q \in Q : q \notin A}
  IN cartProd(NonAccepting, A) \cup cartProd(A, NonAccepting)

allSeparable(Q, A, Sig, delta) ==
  LET NonAccepting == {q \in Q : q \notin A}
      Separable == cartProd(NonAccepting, A) \cup cartProd(A, NonAccepting)
  IN allSeparableLoop(Separable, Q, Sig, delta)

\* a pass of the loop that replaces Separable by the new pairs
allSeparableStepReplace(Separable, Q, Sig, delta) ==
  LET NewPairs == separate(Separable, Q, Sig, delta)
  IN IF NewPairs \subseteq Separable
       THEN [returned |-> TRUE, Separable |-> Separable]
       ELSE [returned |-> FALSE, Separable |-> NewPairs]

\* one pass of while (true) in allSeparable: return at the fixed point,
\* otherwise add the new pairs
allSeparableStep(Separable, Q, Sig, delta) ==
  LET NewPairs == separate(Separable, Q, Sig, delta)
  IN IF NewPairs \subseteq Separable
       THEN [returned |-> TRUE, Separable |-> Separable]
       ELSE [returned |-> FALSE, Separable |-> Separable \cup NewPairs]

RECURSIVE reachableLoop(_, _, _)
reachableLoop(Result, Sig, delta) ==
  LET NewStates == {delta[k] : k \in {key(p, c) : p \in Result, c \in Sig}
                                      \cap DOMAIN delta}
  IN IF NewStates \subseteq Result THEN Result
     ELSE reachableLoop(Result \cup NewStates, Sig, delta)

reachable(q0, Sig, delta) == reachableLoop({q0}, Sig, delta)

minKey(q, c) == <<q, c>>

\* classes that merge nothing
equivClassesSingletons(Q, Separable) == {{q} : q \in Q}

\* the classes of step 3: one class per state q, the states p with (p, q)
\* not separable
equivClasses(Q, Separable) ==
  {{p \in Q : <<p, q>> \notin Separable} : q \in Q}

\* step 6: the nested for loops over Q and Sigma, writing newDelta in order
RECURSIVE newDeltaLoop(_, _, _, _)
newDeltaLoop(acc, todo, delta, EquivClasses) ==
  IF todo = <<>> THEN acc
  ELSE LET q == Head(todo)[1]
           c == Head(todo)[2]
           classOfQ == findEquivalenceClass(q, EquivClasses)
       IN newDeltaLoop(
            IF key(q, c) \in DOMAIN delta
              THEN MapSet(acc, minKey(classOfQ, c),
                          findEquivalenceClass(delta[key(q, c)], EquivClasses))
              ELSE acc,
            Tail(todo), delta, EquivClasses)

\* the exception minimize ends with, as the set of its message; empty when
\* steps 4 to 6 throw nothing.  Step 4 throws when no class holds q0, step 5
\* when arb meets an empty class, step 6 when findEquivalenceClass finds no
\* class for a state of Q or for a target
minimizeThrown(Q, Sig, delta, q0, EquivClasses) ==
  IF ~\E M \in EquivClasses : q0 \in M
    THEN {"Start state vanished!"}
  ELSE IF {} \in EquivClasses
    THEN {"Error: arb called with empty set!"}
  ELSE IF \E q \in Q, c \in Sig :
            \/ q \notin UNION EquivClasses
            \/ /\ key(q, c) \in DOMAIN delta
               /\ delta[key(q, c)] \notin UNION EquivClasses
    THEN {"State not found in partition"}
  ELSE {}

minimize(F) ==
  LET Q == reachable(F.q0, F.Sigma, F.delta)
      Separable == allSeparable(Q, F.A, F.Sigma, F.delta)
      EquivClasses == equivClasses(Q, Separable)
      thrown == minimizeThrown(Q, F.Sigma, F.delta, F.q0, EquivClasses)
      newQ0 == findEquivalenceClass(F.q0, EquivClasses)
      newAccept == {M \in EquivClasses : arb(M) \in F.A}
      newDelta == newDeltaLoop(EmptyMap,
                               pairsInOrder(SetToSeq(Q), SetToSeq(F.Sigma)),
                               F.delta, EquivClasses)
  IN IF thrown # {} THEN Thrown(thrown)
     ELSE [Q |-> EquivClasses, Sigma |-> F.Sigma, delta |-> newDelta,
           q0 |-> newQ0, A |-> newAccept]

(***************************************************************************)
(* 05-DFA-2-RegExp.ts: state elimination                                   *)
(***************************************************************************)
\* regexpSum of the elements of an array
RECURSIVE regexpSum(_)
regexpSum(elems) ==
  IF Len(elems) = 0 THEN EmptySet
  ELSE IF Len(elems) = 1 THEN elems[1]
  ELSE Union(Head(elems), regexpSum(Tail(elems)))

RECURSIVE rpq(_, _, _, _, _)
rpq(p1, p2, Sig, delta, Allowed) ==
  IF Len(Allowed) = 0
    THEN LET allChars == {c \in Sig : /\ key(p1, c) \in DOMAIN delta
                                      /\ delta[key(p1, c)] = p2}
             sum == regexpSum(SetToSeq({CharNode(c) : c \in allChars}))
         IN IF p1 = p2 THEN Union(Epsilon, sum) ELSE sum
    ELSE LET q == Head(Allowed)
             RestAllowed == Tail(Allowed)
             rp1p2 == rpq(p1, p2, Sig, delta, RestAllowed)
             rp1q == rpq(p1, q, Sig, delta, RestAllowed)
             rqq == rpq(q, q, Sig, delta, RestAllowed)
             rqp2 == rpq(q, p2, Sig, delta, RestAllowed)
             loop == Star(rqq)
             concat1 == Concat(rp1q, loop)
             concat2 == Concat(concat1, rqp2)
         IN Union(rp1p2, concat2)

\* dfa2regexp that sums the paths to one accepting state only
dfa2regexpOneAccepting(F) ==
  LET allSts == SetToSeq(F.Q)
      parts == {rpq(F.q0, acc, F.Sigma, F.delta, allSts) :
                  acc \in {a \in F.A : a = arb(F.A)}}
  IN regexpSum(SetToSeq(parts))

dfa2regexp(F) ==
  LET allSts == SetToSeq(F.Q)
      parts == {rpq(F.q0, acc, F.Sigma, F.delta, allSts) : acc \in F.A}
  IN regexpSum(SetToSeq(parts))

(***************************************************************************)
(* 09-Equivalence.ts: product automaton and emptiness                      *)
(***************************************************************************)
genKeyPair(state, c) == <<state, c>>

\* the product that accepts on A1 x Q2 instead of A1 x (Q2 \ A2)
fsm_complementNoDiff(F1, F2) ==
  LET newStates == F1.Q \X F2.Q
      defined == {k \in {genKeyPair(pair, c) : pair \in newStates, c \in F1.Sigma} :
                    /\ key(k[1][1], k[2]) \in DOMAIN F1.delta
                    /\ key(k[1][2], k[2]) \in DOMAIN F2.delta}
      newDelta == Table([k \in defined |->
                           <<F1.delta[key(k[1][1], k[2])], F2.delta[key(k[1][2], k[2])]>>])
  IN [Q |-> newStates, Sigma |-> F1.Sigma, delta |-> newDelta,
      q0 |-> <<F1.q0, F2.q0>>, A |-> F1.A \X F2.Q]

fsm_complement(F1, F2) ==
  LET newStates == F1.Q \X F2.Q
      defined == {k \in {genKeyPair(pair, c) : pair \in newStates, c \in F1.Sigma} :
                    /\ key(k[1][1], k[2]) \in DOMAIN F1.delta
                    /\ key(k[1][2], k[2]) \in DOMAIN F2.delta}
      newDelta == Table([k \in defined |->
                           <<F1.delta[key(k[1][1], k[2])], F2.delta[key(k[1][2], k[2])]>>])
      startPair == <<F1.q0, F2.q0>>
      diffSet == F2.Q \ F2.A
      newAccepting == F1.A \X diffSet
  IN [Q |-> newStates, Sigma |-> F1.Sigma, delta |-> newDelta,
      q0 |-> startPair, A |-> newAccepting]

regexp2DFA(x, Sig) == nfa2dfa(toNFA(x, Sig))

\* the value null
Null == <<"null">>

\* the for loop over the alphabet in findWitness: the successors of state
\* that were not visited are marked and queued with their word
RECURSIVE findWitnessSigma(_, _, _, _, _)
findWitnessSigma(acc, cs, state, word, F) ==
  IF cs = <<>> THEN acc
  ELSE LET k == genKeyPair(state, Head(cs))
       IN findWitnessSigma(
            IF k \in DOMAIN F.delta /\ F.delta[k] \notin acc.visited
              THEN [visited |-> acc.visited \cup {F.delta[k]},
                    queue |-> Append(acc.queue,
                                     [state |-> F.delta[k],
                                      word |-> Append(word, Head(cs))])]
              ELSE acc,
            Tail(cs), state, word, F)

\* while (head < queue.length); head counts from 1 here
RECURSIVE findWitnessLoop(_, _, _, _)
findWitnessLoop(que, head, visited, F) ==
  IF head > Len(que) THEN Null
  ELSE IF que[head].state \in F.A
         THEN IF que[head].word = <<>> THEN <<"eps">> ELSE que[head].word
  ELSE LET nxt == findWitnessSigma([visited |-> visited, queue |-> que],
                                   SetToSeq(F.Sigma), que[head].state,
                                   que[head].word, F)
       IN findWitnessLoop(nxt.queue, head + 1, nxt.visited, F)

findWitness(F) ==
  findWitnessLoop(<<[state |-> F.q0, word |-> <<>>]>>, 1, {F.q0}, F)

\* the successors found along the first symbol only
newFoundFirstSymbol(F, reach) ==
  {F.delta[k] : k \in {genKeyPair(q, arb(F.Sigma)) : q \in reach}
                        \cap DOMAIN F.delta}

\* the two for loops of is_empty: every successor of a state of reach
newFoundOf(F, reach) ==
  {F.delta[k] : k \in {genKeyPair(q, c) : q \in reach, c \in F.Sigma}
                        \cap DOMAIN F.delta}

RECURSIVE is_emptyLoop(_, _)
is_emptyLoop(F, reach) ==
  LET newFound == newFoundOf(F, reach)
  IN IF newFound \subseteq reach THEN reach
     ELSE is_emptyLoop(F, reach \cup newFound)

is_empty(F) == (is_emptyLoop(F, {F.q0}) \cap F.A) = {}

\* regExpEquiv that tests one difference only
regExpEquivOneWay(x1, x2, Sig) ==
  is_empty(fsm_complement(regexp2DFA(x1, Sig), regexp2DFA(x2, Sig)))

regExpEquiv(x1, x2, Sig) ==
  LET F1 == regexp2DFA(x1, Sig)
      F2 == regexp2DFA(x2, Sig)
      r1MinusR2 == fsm_complement(F1, F2)
      r2MinusR1 == fsm_complement(F2, F1)
  IN is_empty(r1MinusR2) /\ is_empty(r2MinusR1)

(***************************************************************************)
(* Rewrite.ts: simplification by rewriting                                 *)
(***************************************************************************)
\* a pattern variable: a single upper-case letter (getPatternView)
Var(name) == <<"var", name>>

\* deepEquals(a, b): the same kind and, recursively, the same parts
RECURSIVE deepEquals(_, _)
deepEquals(a, b) ==
  IF a[1] # b[1] THEN FALSE
  ELSE CASE a[1] \in {"chr", "var"} -> a[2] = b[2]
         [] a[1] = "*" -> deepEquals(a[2], b[2])
         [] a[1] \in {"cat", "+"} -> deepEquals(a[2], b[2]) /\ deepEquals(a[3], b[3])
         [] OTHER -> TRUE

RECURSIVE match(_, _, _)

\* match that binds a variable again at every occurrence, without comparing
\* the term with the one bound before
RECURSIVE matchRebind(_, _, _)
matchRebind(pattern, term, substitution) ==
  IF pattern[1] = "var"
    THEN [ok |-> TRUE, sub |-> MapSet(substitution, pattern[2], term)]
  ELSE IF pattern[1] # term[1] THEN [ok |-> FALSE, sub |-> substitution]
  ELSE CASE pattern[1] = "chr" ->
              [ok |-> pattern[2] = term[2], sub |-> substitution]
         [] pattern[1] = "*" -> matchRebind(pattern[2], term[2], substitution)
         [] pattern[1] \in {"cat", "+"} ->
              LET left == matchRebind(pattern[2], term[2], substitution)
              IN IF left.ok THEN matchRebind(pattern[3], term[3], left.sub)
                 ELSE left
         [] OTHER -> [ok |-> TRUE, sub |-> substitution]

\* match(pattern, term, substitution): the verdict and the substitution as
\* the call leaves it; the source writes the bindings into the Map it is given
match(pattern, term, substitution) ==
  IF pattern[1] = "var"
    THEN IF pattern[2] \in DOMAIN substitution
           THEN [ok |-> deepEquals(substitution[pattern[2]], term),
                 sub |-> substitution]
           ELSE [ok |-> TRUE, sub |-> MapSet(substitution, pattern[2], term)]
  ELSE IF pattern[1] # term[1] THEN [ok |-> FALSE, sub |-> substitution]
  ELSE CASE pattern[1] = "chr" -> [ok |-> pattern[2] = term[2], sub |-> substitution]
         [] pattern[1] = "*" -> match(pattern[2], term[2], substitution)
         [] pattern[1] \in {"cat", "+"} ->
              LET left == match(pattern[2], term[2], substitution)
              IN IF left.ok THEN match(pattern[3], term[3], left.sub) ELSE left
         [] OTHER -> [ok |-> TRUE, sub |-> substitution]

\* apply(term, substitution): the term with its bound variables replaced
RECURSIVE apply(_, _)
apply(term, substitution) ==
  CASE term[1] = "var" ->
         IF term[2] \in DOMAIN substitution THEN substitution[term[2]] ELSE term
    [] term[1] = "*" -> Star(apply(term[2], substitution))
    [] term[1] = "cat" ->
         Concat(apply(term[2], substitution), apply(term[3], substitution))
    [] term[1] = "+" ->
         Union(apply(term[2], substitution), apply(term[3], substitution))
    [] OTHER -> term

\* rewrite that starts from a substitution with a binding left in it
rewriteStale(term, rl) ==
  LET m == match(rl[1], term, MapSet(EmptyMap, "R", Epsilon))
  IN IF m.ok THEN [simplified |-> TRUE, result |-> apply(rl[2], m.sub)]
     ELSE [simplified |-> FALSE, result |-> term]

rewrite(term, rl) ==
  LET m == match(rl[1], term, EmptyMap)
  IN IF m.ok THEN [simplified |-> TRUE, result |-> apply(rl[2], m.sub)]
     ELSE [simplified |-> FALSE, result |-> term]

getRules ==
  LET R == Var("R")
      S == Var("S")
      T == Var("T")
      e == Epsilon
      z == EmptySet
  IN << <<Union(R, z), R>>,
        <<Union(z, R), R>>,
        <<Union(R, R), R>>,
        <<Union(e, Star(R)), Star(R)>>,
        <<Union(Star(R), e), Star(R)>>,
        <<Union(e, Concat(R, Star(R))), Star(R)>>,
        <<Union(e, Concat(Star(R), R)), Star(R)>>,
        <<Union(Concat(R, Star(R)), e), Star(R)>>,
        <<Union(Concat(Star(R), R), e), Star(R)>>,
        <<Union(S, Concat(S, T)), Concat(S, Union(e, T))>>,
        <<Union(S, Concat(T, S)), Concat(Union(e, T), S)>>,
        <<Concat(z, R), z>>,
        <<Concat(R, z), z>>,
        <<Concat(e, R), R>>,
        <<Concat(R, e), R>>,
        <<Concat(Union(e, R), Star(R)), Star(R)>>,
        <<Concat(Union(R, e), Star(R)), Star(R)>>,
        <<Concat(Star(R), Union(R, e)), Star(R)>>,
        <<Concat(Star(R), Union(e, R)), Star(R)>>,
        <<Star(z), e>>,
        <<Star(e), e>>,
        <<Star(Union(e, R)), Star(R)>>,
        <<Star(Union(R, e)), Star(R)>>,
        <<Union(R, Union(S, T)), Union(Union(R, S), T)>>,
        <<Concat(R, Concat(S, T)), Concat(Concat(R, S), T)>>,
        <<Concat(Concat(R, Star(S)), Union(e, S)), Concat(R, Star(S))>> >>

\* the for loop over the rules in simplifyOnce: the index of the first rule,
\* from rule i on, that rewrites the term at its root; 0 when there is none
RECURSIVE firstRule(_, _, _)
firstRule(term, rules, i) ==
  IF i > Len(rules) THEN 0
  ELSE IF rewrite(term, rules[i]).simplified THEN i
  ELSE firstRule(term, rules, i + 1)

\* term with its children replaced
withChildren(term, left, right) ==
  CASE term[1] = "*" -> Star(left)
    [] term[1] = "cat" -> Concat(left, right)
    [] term[1] = "+" -> Union(left, right)
    [] OTHER -> term

RECURSIVE simplifyOnce(_, _)

\* a pass that simplifies the children first and then tries the rules at
\* the node
RECURSIVE simplifyOnceChildrenFirst(_, _)
simplifyOnceChildrenFirst(term, rules) ==
  LET inner == CASE term[1] = "*" ->
                      Star(simplifyOnceChildrenFirst(term[2], rules))
                 [] term[1] \in {"cat", "+"} ->
                      withChildren(term,
                                   simplifyOnceChildrenFirst(term[2], rules),
                                   simplifyOnceChildrenFirst(term[3], rules))
                 [] OTHER -> term
      i == firstRule(inner, rules, 1)
  IN IF i # 0 THEN rewrite(inner, rules[i]).result ELSE inner

\* simplifyOnce(term, rules): the first rule that matches at the root is
\* applied; when none matches, the children are simplified
simplifyOnce(term, rules) ==
  LET i == firstRule(term, rules, 1)
  IN IF i # 0
       THEN rewrite(term, rules[i]).result
     ELSE CASE term[1] = "*" -> Star(simplifyOnce(term[2], rules))
            [] term[1] = "cat" ->
                 Concat(simplifyOnce(term[2], rules), simplifyOnce(term[3], rules))
            [] term[1] = "+" ->
                 Union(simplifyOnce(term[2], rules), simplifyOnce(term[3], rules))
            [] OTHER -> term

\* the iteration cap of simplify
MAX == 1000

\* the loop body without the fixed-point test: it runs on until the cap
simplifyStepToCap(cur, iters) ==
  LET next == simplifyOnce(cur, getRules)
  IN IF iters + 1 > MAX
       THEN [returned |-> TRUE, current |-> next, iterations |-> iters + 1,
             warned |-> TRUE]
     ELSE [returned |-> FALSE, current |-> next, iterations |-> iters + 1,
           warned |-> FALSE]

\* the body of while (true) in simplify: the result when the call returns
\* in this iteration, the state of the next iteration otherwise
simplifyStep(cur, iters) ==
  LET next == simplifyOnce(cur, getRules)
  IN IF deepEquals(cur, next)
       THEN [returned |-> TRUE, current |-> next, iterations |-> iters,
             warned |-> FALSE]
     ELSE IF iters + 1 > MAX
       THEN [returned |-> TRUE, current |-> next, iterations |-> iters + 1,
             warned |-> TRUE]
     ELSE [returned |-> FALSE, current |-> next, iterations |-> iters + 1,
           warned |-> FALSE]

RECURSIVE simplifyLoop(_, _)
simplifyLoop(cur, iters) ==
  LET st == simplifyStep(cur, iters)
  IN IF st.returned THEN st.current ELSE simplifyLoop(st.current, st.iterations)

\* simplify that makes one pass only
simplifyOnePass(t) == simplifyOnce(t, getRules)

simplify(t) == simplifyLoop(t, 0)

(***************************************************************************)
(* Acceptance                                                              *)
(***************************************************************************)
\* the run of a deterministic automaton on w from state q; a missing table
\* entry stops the run (implicit reject)
RECURSIVE dfaRun(_, _, _)
dfaRun(F, q, w) ==
  IF w = <<>> THEN [ok |-> TRUE, q |-> q]
  ELSE IF key(q, Head(w)) \in DOMAIN F.delta
         THEN dfaRun(F, F.delta[key(q, Head(w))], Tail(w))
         ELSE [ok |-> FALSE, q |-> q]

acceptsFrom(F, q, w) == LET e == dfaRun(F, q, w) IN e.ok /\ e.q \in F.A

accepts(F, w) == acceptsFrom(F, F.q0, w)

\* the states an NFA can be in after w, epsilon edges taken freely
RECURSIVE epsReach(_, _)
epsReach(S, delta) ==
  LET more == S \cup UNION {delta[<<q, "eps">>] :
                              q \in {p \in S : <<p, "eps">> \in DOMAIN delta}}
  IN IF more = S THEN S ELSE epsReach(more, delta)

RECURSIVE nfaRun(_, _, _)
nfaRun(n, S, w) ==
  IF w = <<>> THEN epsReach(S, n.delta)
  ELSE nfaRun(n,
              UNION {n.delta[<<q, Head(w)>>] :
                       q \in {p \in epsReach(S, n.delta) :
                                <<p, Head(w)>> \in DOMAIN n.delta}},
              Tail(w))

nfaAccepts(n, w) == (nfaRun(n, {n.q0}, w) \cap n.A) # {}

(***************************************************************************)
(* The pipeline regular expression -> NFA -> DFA                           *)
(***************************************************************************)
\* a(a+b)*b, the concrete scenario of the specification
ScenarioRegExp ==
  Concat(CharNode("a"),
         Concat(Star(Union(CharNode("a"), CharNode("b"))), CharNode("b")))

Init ==
  /\ pc = "regexp"
  /\ r \in RegExpUpTo(MaxSize) \cup {ScenarioRegExp}
  /\ r2 = None /\ nfa = None /\ dfa = None /\ mdfa = None /\ mdfa2 = None
  /\ re = None /\ eq = None /\ eqSw = None /\ states = {} /\ queue = None
  /\ current = None /\ iterations = 0 /\ warned = FALSE
  /\ dfa2 = None /\ prod = None /\ reachSet = {} /\ empty = FALSE /\ witness = None
  /\ ExtraIdle
  /\ input = <<>> /\ tokens = <<>> /\ parsed = None

ToNFA ==
  /\ pc = "regexp"
  /\ nfa' = toNFA(r, Sigma)
  /\ pc' = "nfa"
  /\ UNCHANGED extraVars /\ UNCHANGED simplifyVars /\ UNCHANGED parserVars /\ UNCHANGED productVars /\ UNCHANGED <<r, r2, dfa, mdfa, mdfa2, re, eq, eqSw, states, queue>>

Nfa2Dfa ==
  /\ pc = "nfa"
  /\ dfa' = nfa2dfa(nfa)
  /\ pc' = "dfa"
  /\ UNCHANGED extraVars /\ UNCHANGED simplifyVars /\ UNCHANGED parserVars /\ UNCHANGED productVars /\ UNCHANGED <<r, r2, nfa, mdfa, mdfa2, re, eq, eqSw, states, queue>>

\* minimize(dfa); an exception ends the run
Minimize ==
  /\ pc = "dfa"
  /\ mdfa' = minimize(dfa)
  /\ pc' = IF hasThrown(mdfa') THEN "failed" ELSE "min"
  /\ UNCHANGED extraVars /\ UNCHANGED simplifyVars /\ UNCHANGED parserVars /\ UNCHANGED productVars /\ UNCHANGED <<r, r2, nfa, dfa, mdfa2, re, eq, eqSw, states, queue>>

Next == ToNFA \/ Nfa2Dfa \/ Minimize

Spec == Init /\ [][Next]_vars

(***************************************************************************)
(* Minimisation of an arbitrary deterministic automaton                    *)
(***************************************************************************)
\* the states of a DFA are sets of NFA states (DFAState)
DState(i) == {i}
DStates(n) == {DState(i) : i \in 1..n}

\* every transition table over Q and Sig, entries may be missing
PartialTables(Q, Sig) ==
  UNION {[D -> Q] : D \in SUBSET {key(q, c) : q \in Q, c \in Sig}}

\* every DFA with the states Q over Sig that starts in DState(1)
DFAsOver(Q, Sig) ==
  {[Q |-> Q, Sigma |-> Sig, delta |-> d, q0 |-> DState(1), A |-> acc] :
     d \in PartialTables(Q, Sig), acc \in SUBSET Q}

\* the automata over Sigma have MaxStates states, the automata over the
\* one-letter alphabet one state more
InitDFA ==
  /\ pc = "dfa"
  /\ dfa \in DFAsOver(DStates(MaxStates), Sigma)
              \cup DFAsOver(DStates(MaxStates + 1), {"a"})
  /\ r = None /\ r2 = None /\ nfa = None /\ mdfa = None /\ mdfa2 = None
  /\ re = None /\ eq = None /\ eqSw = None /\ states = {} /\ queue = None
  /\ current = None /\ iterations = 0 /\ warned = FALSE
  /\ dfa2 = None /\ prod = None /\ reachSet = {} /\ empty = FALSE /\ witness = None
  /\ ExtraIdle
  /\ input = <<>> /\ tokens = <<>> /\ parsed = None

MinimizeAgain ==
  /\ pc = "min"
  /\ mdfa2' = minimize(mdfa)
  /\ pc' = "min2"
  /\ UNCHANGED extraVars /\ UNCHANGED simplifyVars /\ UNCHANGED parserVars /\ UNCHANGED productVars /\ UNCHANGED <<r, r2, nfa, dfa, mdfa, re, eq, eqSw, states, queue>>

NextDFA == Minimize \/ MinimizeAgain

SpecDFA == InitDFA /\ [][NextDFA]_vars

(***************************************************************************)
(* The round trip regular expression -> DFA -> regular expression          *)
(***************************************************************************)
InitRoundTrip ==
  /\ pc = "regexp"
  /\ r \in RegExpUpTo(MaxSizeRoundTrip)
  /\ r2 = None /\ nfa = None /\ dfa = None /\ mdfa = None /\ mdfa2 = None
  /\ re = None /\ eq = None /\ eqSw = None /\ states = {} /\ queue = None
  /\ current = None /\ iterations = 0 /\ warned = FALSE
  /\ dfa2 = None /\ prod = None /\ reachSet = {} /\ empty = FALSE /\ witness = None
  /\ ExtraIdle
  /\ input = <<>> /\ tokens = <<>> /\ parsed = None

Dfa2RegExp ==
  /\ pc = "dfa"
  /\ re' = dfa2regexp(dfa)
  /\ pc' = "re"
  /\ UNCHANGED extraVars /\ UNCHANGED simplifyVars /\ UNCHANGED parserVars /\ UNCHANGED productVars /\ UNCHANGED <<r, r2, nfa, dfa, mdfa, mdfa2, eq, eqSw, states, queue>>

RoundTripEquiv ==
  /\ pc = "re"
  /\ eq' = regExpEquiv(r, re, Sigma)
  /\ pc' = "roundtrip"
  /\ UNCHANGED extraVars /\ UNCHANGED simplifyVars /\ UNCHANGED parserVars /\ UNCHANGED productVars /\ UNCHANGED <<r, r2, nfa, dfa, mdfa, mdfa2, re, eqSw, states, queue>>

NextRoundTrip == ToNFA \/ Nfa2Dfa \/ Dfa2RegExp \/ RoundTripEquiv

SpecRoundTrip == InitRoundTrip /\ [][NextRoundTrip]_vars

(***************************************************************************)
(* The equivalence check on a pair of regular expressions                  *)
(***************************************************************************)
InitEquiv ==
  /\ pc = "pair"
  /\ r \in RegExpUpTo(MaxSizeEq)
  /\ r2 \in RegExpUpTo(MaxSizeEq)
  /\ nfa = None /\ dfa = None /\ mdfa = None /\ mdfa2 = None
  /\ re = None /\ eq = None /\ eqSw = None /\ states = {} /\ queue = None
  /\ current = None /\ iterations = 0 /\ warned = FALSE
  /\ dfa2 = None /\ prod = None /\ reachSet = {} /\ empty = FALSE /\ witness = None
  /\ ExtraIdle
  /\ input = <<>> /\ tokens = <<>> /\ parsed = None

Equiv ==
  /\ pc = "pair"
  /\ eq' = regExpEquiv(r, r2, Sigma)
  /\ pc' = "eq"
  /\ UNCHANGED extraVars /\ UNCHANGED simplifyVars /\ UNCHANGED parserVars /\ UNCHANGED productVars /\ UNCHANGED <<r, r2, nfa, dfa, mdfa, mdfa2, re, eqSw, states, queue>>

EquivSwapped ==
  /\ pc = "eq"
  /\ eqSw' = regExpEquiv(r2, r, Sigma)
  /\ pc' = "eqsw"
  /\ UNCHANGED extraVars /\ UNCHANGED simplifyVars /\ UNCHANGED parserVars /\ UNCHANGED productVars /\ UNCHANGED <<r, r2, nfa, dfa, mdfa, mdfa2, re, eq, states, queue>>

NextEquiv == Equiv \/ EquivSwapped

SpecEquiv == InitEquiv /\ [][NextEquiv]_vars

(***************************************************************************)
(* The worklist of allStates, one iteration of the while loop per step     *)
(***************************************************************************)
NfaStates == 1..MaxNfaStates

\* an edge (q, c, q') puts q' into delta(q, c)
Edges == NfaStates \X (Sigma \cup {"eps"}) \X NfaStates

RECURSIVE EdgeSetsUpTo(_)
EdgeSetsUpTo(n) ==
  IF n = 0 THEN {{}}
  ELSE LET S == EdgeSetsUpTo(n - 1)
       IN S \cup {E \cup {e} : E \in S, e \in Edges}

\* the transition map with the edges E: a key is present when it has a target
deltaOf(E) ==
  Table([k \in {key(e[1], e[2]) : e \in E} |->
           {e[3] : e \in {x \in E : key(x[1], x[2]) = k}}])

\* every NFA over Sigma with the states 1..MaxNfaStates, start state 1, one
\* accepting state and at most MaxEdges edges
InitNFA ==
  /\ pc = "start"
  /\ nfa \in {[Q |-> NfaStates, Sigma |-> Sigma, delta |-> deltaOf(E),
                q0 |-> 1, A |-> {acc}] :
                 E \in EdgeSetsUpTo(MaxEdges), acc \in NfaStates}
  /\ r = None /\ r2 = None /\ dfa = None /\ mdfa = None /\ mdfa2 = None
  /\ re = None /\ eq = None /\ eqSw = None /\ states = {} /\ queue = None
  /\ current = None /\ iterations = 0 /\ warned = FALSE
  /\ dfa2 = None /\ prod = None /\ reachSet = {} /\ empty = FALSE /\ witness = None
  /\ ExtraIdle
  /\ input = <<>> /\ tokens = <<>> /\ parsed = None

\* nfa2dfa step 1 and the initialisation of allStates
AllStatesStart ==
  /\ pc = "start"
  /\ LET Q0 == epsClosure(nfa.q0, nfa.delta)
     IN /\ states' = {Q0}
        /\ queue' = <<Q0>>
  /\ pc' = "loop"
  /\ UNCHANGED extraVars /\ UNCHANGED simplifyVars /\ UNCHANGED parserVars /\ UNCHANGED productVars /\ UNCHANGED <<r, r2, nfa, dfa, mdfa, mdfa2, re, eq, eqSw>>

\* one iteration of while (queue.length > 0)
AllStatesIter ==
  /\ pc = "loop"
  /\ Len(queue) > 0
  /\ LET nxt == allStatesStep(states, queue, nfa.delta, nfa.Sigma)
     IN /\ states' = nxt.states
        /\ queue' = nxt.queue
  /\ UNCHANGED extraVars /\ UNCHANGED simplifyVars /\ UNCHANGED parserVars /\ UNCHANGED productVars /\ UNCHANGED <<pc, r, r2, nfa, dfa, mdfa, mdfa2, re, eq, eqSw>>

\* the loop exits; nfa2dfa steps 3 and 4 build the automaton
AllStatesDone ==
  /\ pc = "loop"
  /\ Len(queue) = 0
  /\ dfa' = nfa2dfaFrom(nfa, epsClosure(nfa.q0, nfa.delta), states)
  /\ pc' = "done"
  /\ UNCHANGED extraVars /\ UNCHANGED simplifyVars /\ UNCHANGED parserVars /\ UNCHANGED productVars /\ UNCHANGED <<r, r2, nfa, mdfa, mdfa2, re, eq, eqSw, states, queue>>

NextNFA == AllStatesStart \/ AllStatesIter \/ AllStatesDone

\* nfa2dfa runs to completion without yielding, so a step that can be taken
\* is taken
SpecNFA == InitNFA /\ [][NextNFA]_vars /\ WF_vars(NextNFA)

(***************************************************************************)
(* simplify, one pass of the fixed-point loop per step                     *)
(***************************************************************************)
InitSimplify ==
  /\ pc = "term"
  /\ r \in RegExpUpTo(MaxSizeSimplify)
  /\ r2 = None /\ nfa = None /\ dfa = None /\ mdfa = None /\ mdfa2 = None
  /\ re = None /\ eq = None /\ eqSw = None /\ states = {} /\ queue = None
  /\ current = None /\ iterations = 0 /\ warned = FALSE
  /\ dfa2 = None /\ prod = None /\ reachSet = {} /\ empty = FALSE /\ witness = None
  /\ ExtraIdle
  /\ input = <<>> /\ tokens = <<>> /\ parsed = None

\* simplify(r) is called: current = t, iterations = 0
SimplifyStart ==
  /\ pc = "term"
  /\ current' = r
  /\ iterations' = 0
  /\ warned' = FALSE
  /\ pc' = "pass"
  /\ UNCHANGED extraVars /\ UNCHANGED productVars /\ UNCHANGED parserVars
  /\ UNCHANGED <<r, r2, nfa, dfa, mdfa, mdfa2, re, eq, eqSw, states, queue>>

\* one iteration of while (true); the value returned is kept in re
SimplifyPass ==
  /\ pc = "pass"
  /\ \E st \in {simplifyStep(current, iterations)} :
        /\ current' = st.current
        /\ iterations' = st.iterations
        /\ warned' = st.warned
        /\ pc' = IF st.returned THEN "simplified" ELSE "pass"
        /\ re' = IF st.returned THEN st.current ELSE re
  /\ UNCHANGED extraVars /\ UNCHANGED productVars /\ UNCHANGED parserVars
  /\ UNCHANGED <<r, r2, nfa, dfa, mdfa, mdfa2, eq, eqSw, states, queue>>

\* simplify applied to its own result
SimplifyAgain ==
  /\ pc = "simplified"
  /\ r2' = simplify(re)
  /\ pc' = "again"
  /\ UNCHANGED extraVars /\ UNCHANGED simplifyVars /\ UNCHANGED parserVars /\ UNCHANGED productVars
  /\ UNCHANGED <<r, nfa, dfa, mdfa, mdfa2, re, eq, eqSw, states, queue>>

NextSimplify == SimplifyStart \/ SimplifyPass \/ SimplifyAgain

SpecSimplify == InitSimplify /\ [][NextSimplify]_vars

\* the same steps on the trees of at most MaxSizeLoop nodes; simplify runs to
\* completion without yielding, so a step that can be taken is taken
InitSimplifyLoop ==
  /\ pc = "term"
  /\ r \in RegExpUpTo(MaxSizeLoop)
  /\ r2 = None /\ nfa = None /\ dfa = None /\ mdfa = None /\ mdfa2 = None
  /\ re = None /\ eq = None /\ eqSw = None /\ states = {} /\ queue = None
  /\ current = None /\ iterations = 0 /\ warned = FALSE
  /\ dfa2 = None /\ prod = None /\ reachSet = {} /\ empty = FALSE /\ witness = None
  /\ ExtraIdle
  /\ input = <<>> /\ tokens = <<>> /\ parsed = None

SpecSimplifyLoop ==
  InitSimplifyLoop /\ [][NextSimplify]_vars /\ WF_vars(NextSimplify)

(***************************************************************************)
(* Two independent calls of nfa2dfa on one NFA                             *)
(***************************************************************************)
\* a call that iterates the alphabet and the composite states in some order
Nfa2DfaInOrder ==
  /\ pc = "start"
  /\ \E cs \in Orders(nfa.Sigma), backwards \in BOOLEAN :
        dfa' = nfa2dfaIn(nfa, cs, backwards)
  /\ pc' = "first"
  /\ UNCHANGED extraVars /\ UNCHANGED simplifyVars /\ UNCHANGED parserVars /\ UNCHANGED productVars
  /\ UNCHANGED <<r, r2, nfa, mdfa, mdfa2, re, eq, eqSw, states, queue>>

\* a second call, in an order of its own; its result is kept in mdfa
Nfa2DfaInOrderAgain ==
  /\ pc = "first"
  /\ \E cs \in Orders(nfa.Sigma), backwards \in BOOLEAN :
        mdfa' = nfa2dfaIn(nfa, cs, backwards)
  /\ pc' = "second"
  /\ UNCHANGED extraVars /\ UNCHANGED simplifyVars /\ UNCHANGED parserVars /\ UNCHANGED productVars
  /\ UNCHANGED <<r, r2, nfa, dfa, mdfa2, re, eq, eqSw, states, queue>>

NextOrder == Nfa2DfaInOrder \/ Nfa2DfaInOrderAgain

SpecOrder == InitNFA /\ [][NextOrder]_vars

(***************************************************************************)
(* The product automaton of two deterministic automata                     *)
(***************************************************************************)
InitProduct ==
  /\ pc = "automata"
  /\ dfa \in DFAsOver(DStates(MaxProductStates), Sigma)
  /\ dfa2 \in DFAsOver(DStates(MaxProductStates), Sigma)
  /\ r = None /\ r2 = None /\ nfa = None /\ mdfa = None /\ mdfa2 = None
  /\ re = None /\ eq = None /\ eqSw = None /\ states = {} /\ queue = None
  /\ current = None /\ iterations = 0 /\ warned = FALSE
  /\ prod = None /\ reachSet = {} /\ empty = FALSE /\ witness = None
  /\ ExtraIdle
  /\ input = <<>> /\ tokens = <<>> /\ parsed = None

Complement ==
  /\ pc = "automata"
  /\ prod' = fsm_complement(dfa, dfa2)
  /\ pc' = "product"
  /\ UNCHANGED extraVars /\ UNCHANGED simplifyVars /\ UNCHANGED parserVars
  /\ UNCHANGED <<r, r2, nfa, dfa, mdfa, mdfa2, re, eq, eqSw, states, queue,
                 dfa2, reachSet, empty, witness>>

NextProduct == Complement

SpecProduct == InitProduct /\ [][NextProduct]_vars

(***************************************************************************)
(* The emptiness test of an automaton, one pass of its loop per step        *)
(***************************************************************************)
InitEmpty ==
  /\ pc = "product"
  /\ prod \in DFAsOver(DStates(MaxEmptyStates), Sigma)
  /\ r = None /\ r2 = None /\ nfa = None /\ dfa = None /\ mdfa = None
  /\ mdfa2 = None /\ re = None /\ eq = None /\ eqSw = None
  /\ states = {} /\ queue = None
  /\ current = None /\ iterations = 0 /\ warned = FALSE
  /\ dfa2 = None /\ reachSet = {} /\ empty = FALSE /\ witness = None
  /\ ExtraIdle
  /\ input = <<>> /\ tokens = <<>> /\ parsed = None

\* is_empty(prod) is called: reachable = {q0}
IsEmptyStart ==
  /\ pc = "product"
  /\ reachSet' = {prod.q0}
  /\ pc' = "reach"
  /\ UNCHANGED extraVars /\ UNCHANGED simplifyVars /\ UNCHANGED parserVars
  /\ UNCHANGED <<r, r2, nfa, dfa, mdfa, mdfa2, re, eq, eqSw, states, queue,
                 dfa2, prod, empty, witness>>

\* one iteration of while (true); at the fixed point the loop is left and
\* the result is returned
IsEmptyIter ==
  /\ pc = "reach"
  /\ LET newFound == newFoundOf(prod, reachSet)
     IN IF newFound \subseteq reachSet
          THEN /\ empty' = ((reachSet \cap prod.A) = {})
               /\ pc' = "emptied"
               /\ UNCHANGED reachSet
          ELSE /\ reachSet' = reachSet \cup newFound
               /\ UNCHANGED <<pc, empty>>
  /\ UNCHANGED extraVars /\ UNCHANGED simplifyVars /\ UNCHANGED parserVars
  /\ UNCHANGED <<r, r2, nfa, dfa, mdfa, mdfa2, re, eq, eqSw, states, queue,
                 dfa2, prod, witness>>

FindWitness ==
  /\ pc = "emptied"
  /\ witness' = findWitness(prod)
  /\ pc' = "witnessed"
  /\ UNCHANGED extraVars /\ UNCHANGED simplifyVars /\ UNCHANGED parserVars
  /\ UNCHANGED <<r, r2, nfa, dfa, mdfa, mdfa2, re, eq, eqSw, states, queue,
                 dfa2, prod, reachSet, empty>>

NextEmpty == IsEmptyStart \/ IsEmptyIter \/ FindWitness

\* is_empty runs to completion without yielding
SpecEmpty == InitEmpty /\ [][NextEmpty]_vars /\ WF_vars(NextEmpty)

(***************************************************************************)
(* RegExp-Parser.ts: the tokenizer and the recursive-descent parser.  A     *)
(* string is a sequence of characters; "eps" and "empty" stand for the      *)
(* characters of the empty word and of the empty language.                  *)
(***************************************************************************)
Letters == {"a", "b"}
\* whitespace, and characters that are no token
Blanks == {" "}
Foreign == {"#"}
InputChars == {"(", ")", "+", "*", "eps", "empty"} \cup Letters \cup Blanks
                \cup Foreign

\* a character matched by tokenRegex
isToken(c) == c \in {"+", "*", "(", ")"} \/ c \in Letters
                \/ c = "empty" \/ c = "eps"

\* s.match(tokenRegex): the matches in order, [] when there is none
tokenize(s) == SelectSeq(s, isToken)

\* a call that returned [tree, rest]
parsedTo(tree, rest) == [ok |-> TRUE, tree |-> tree, msg |-> <<>>, rest |-> rest]

\* error(msg, tokens): the exception with its message and remaining tokens
error(msg, toks) == [ok |-> FALSE, tree |-> None, msg |-> msg, rest |-> toks]

isAtomStart(t) == t \in Letters \/ t \in {"(", "empty", "eps"}

RECURSIVE parseRegExp(_)
RECURSIVE parseRegExpLoop(_, _)
RECURSIVE parseProduct(_)
RECURSIVE parseProductLoop(_, _)
RECURSIVE parseFactor(_)
RECURSIVE parseAtom(_)

parseAtom(toks) ==
  IF Len(toks) = 0 THEN error(<<"Unexpected end of input">>, toks)
  ELSE LET t == Head(toks)
           rest == Tail(toks)
       IN IF t = "("
            THEN LET e == parseRegExp(rest)
                 IN IF ~e.ok THEN e
                    ELSE IF Len(e.rest) = 0 \/ Head(e.rest) # ")"
                           THEN error(<<"Expected ')'">>, e.rest)
                    ELSE parsedTo(e.tree, Tail(e.rest))
          ELSE IF t = "empty" THEN parsedTo(EmptySet, rest)
          ELSE IF t = "eps" THEN parsedTo(Epsilon, rest)
          ELSE IF t \in Letters THEN parsedTo(CharNode(t), rest)
          ELSE error(<<"Unexpected token", t>>, toks)

parseFactor(toks) ==
  LET a == parseAtom(toks)
  IN IF ~a.ok THEN a
     ELSE IF Len(a.rest) > 0 /\ Head(a.rest) = "*"
            THEN parsedTo(Star(a.tree), Tail(a.rest))
     ELSE a

\* the while loop of parseProduct
parseProductLoop(result, rest) ==
  IF Len(rest) > 0 /\ isAtomStart(Head(rest))
    THEN LET f == parseFactor(rest)
         IN IF ~f.ok THEN f
            ELSE parseProductLoop(Concat(result, f.tree), f.rest)
    ELSE parsedTo(result, rest)

parseProduct(toks) ==
  LET f == parseFactor(toks)
  IN IF ~f.ok THEN f ELSE parseProductLoop(f.tree, f.rest)

\* the while loop of parseRegExp
parseRegExpLoop(result, rest) ==
  IF Len(rest) > 0 /\ Head(rest) = "+"
    THEN LET p == parseProduct(Tail(rest))
         IN IF ~p.ok THEN p
            ELSE parseRegExpLoop(Union(result, p.tree), p.rest)
    ELSE parsedTo(result, rest)

parseRegExp(toks) ==
  LET p == parseProduct(toks)
  IN IF ~p.ok THEN p ELSE parseRegExpLoop(p.tree, p.rest)

\* parse without the test for trailing tokens
parseIgnoreRest(s) == parseRegExp(tokenize(s))

parse(s) ==
  LET res == parseRegExp(tokenize(s))
  IN IF ~res.ok THEN res
     ELSE IF Len(res.rest) > 0
            THEN error(<<"Unexpected trailing tokens">>, res.rest)
     ELSE res

\* every string of at most MaxInputLen characters
Inputs == UNION {[1..k -> InputChars] : k \in 0..MaxInputLen}

InitParse ==
  /\ pc = "input"
  /\ input \in Inputs
  /\ tokens = <<>> /\ parsed = None
  /\ r = None /\ r2 = None /\ nfa = None /\ dfa = None /\ mdfa = None
  /\ mdfa2 = None /\ re = None /\ eq = None /\ eqSw = None
  /\ states = {} /\ queue = None
  /\ current = None /\ iterations = 0 /\ warned = FALSE
  /\ dfa2 = None /\ prod = None /\ reachSet = {} /\ empty = FALSE
  /\ witness = None
  /\ ExtraIdle

\* parse(input); tokens keeps what tokenize returned
Parse ==
  /\ pc = "input"
  /\ tokens' = tokenize(input)
  /\ parsed' = parse(input)
  /\ pc' = "parsed"
  /\ UNCHANGED extraVars /\ UNCHANGED simplifyVars /\ UNCHANGED productVars
  /\ UNCHANGED <<r, r2, nfa, dfa, mdfa, mdfa2, re, eq, eqSw, states, queue,
                 input>>

NextParse == Parse

SpecParse == InitParse /\ [][NextParse]_vars

(***************************************************************************)
(* A direct call of a combinator on automata with any accepting set         *)
(***************************************************************************)
\* the automaton f with the accepting set S
withAccepting(f, S) == [Q |-> f.Q, Sigma |-> f.Sigma, delta |-> f.delta,
                        q0 |-> f.q0, A |-> S]

\* the automata of the trees of at most MaxSizeCombine nodes, built with the
\* generator at gen, each with every subset of its states as accepting set
ArgumentsFrom(gen) ==
  UNION {{withAccepting(toNFAGen(x, gen, Sigma).nfa, S) :
            S \in SUBSET toNFAGen(x, gen, Sigma).nfa.Q} :
           x \in RegExpUpTo(MaxSizeCombine)}

\* the counter after the states of f were made
genAfter(f) == CHOOSE n \in f.Q : \A q \in f.Q : q <= n

InitCombine ==
  /\ pc = "args"
  /\ op \in {"catenate", "disjunction", "kleene"}
  /\ arg1 \in ArgumentsFrom(0)
  /\ arg2 \in ArgumentsFrom(genAfter(arg1))
  /\ SeparableIdle /\ RewriteIdle /\ HeapIdle /\ FixedPointIdle
  /\ r = None /\ r2 = None /\ nfa = None /\ dfa = None /\ mdfa = None
  /\ mdfa2 = None /\ re = None /\ eq = None /\ eqSw = None
  /\ states = {} /\ queue = None
  /\ current = None /\ iterations = 0 /\ warned = FALSE
  /\ dfa2 = None /\ prod = None /\ reachSet = {} /\ empty = FALSE
  /\ witness = None
  /\ input = <<>> /\ tokens = <<>> /\ parsed = None

\* op(gen, arg1, arg2), kleene taking arg1 alone
Combine ==
  /\ pc = "args"
  /\ nfa' = callCombinator(op, genAfter(arg2), arg1, arg2)
  /\ pc' = IF hasThrown(nfa') THEN "failed" ELSE "combined"
  /\ UNCHANGED extraVars /\ UNCHANGED simplifyVars /\ UNCHANGED parserVars
  /\ UNCHANGED productVars
  /\ UNCHANGED <<r, r2, dfa, mdfa, mdfa2, re, eq, eqSw, states, queue>>

NextCombine == Combine

SpecCombine == InitCombine /\ [][NextCombine]_vars

(***************************************************************************)
(* allSeparable as called by minimize, one pass of its loop per step        *)
(***************************************************************************)
InitSeparable ==
  /\ pc = "dfa"
  /\ dfa \in DFAsOver(DStates(MaxStates), Sigma)
              \cup DFAsOver(DStates(MaxStates + 1), {"a"})
  /\ r = None /\ r2 = None /\ nfa = None /\ mdfa = None /\ mdfa2 = None
  /\ re = None /\ eq = None /\ eqSw = None /\ states = {} /\ queue = None
  /\ current = None /\ iterations = 0 /\ warned = FALSE
  /\ dfa2 = None /\ prod = None /\ reachSet = {} /\ empty = FALSE
  /\ witness = None
  /\ input = <<>> /\ tokens = <<>> /\ parsed = None
  /\ ExtraIdle

\* minimize steps 1 and 2 up to the loop: Q = reachable(...), and the pairs
\* of a non-accepting and an accepting state
SeparableStart ==
  /\ pc = "dfa"
  /\ LET Q == reachable(dfa.q0, dfa.Sigma, dfa.delta)
         NonAccepting == {q \in Q : q \notin dfa.A}
     IN separable' = cartProd(NonAccepting, dfa.A)
                       \cup cartProd(dfa.A, NonAccepting)
  /\ pc' = "separating"
  /\ UNCHANGED combineVars /\ UNCHANGED rewriteVars /\ UNCHANGED heapVars
  /\ UNCHANGED fixedPointVars
  /\ UNCHANGED simplifyVars /\ UNCHANGED parserVars
  /\ UNCHANGED productVars
  /\ UNCHANGED <<r, r2, nfa, dfa, mdfa, mdfa2, re, eq, eqSw, states, queue,
                 rounds>>

\* one pass of the loop
SeparableIter ==
  /\ pc = "separating"
  /\ \E st \in {allSeparableStep(separable,
                                  reachable(dfa.q0, dfa.Sigma, dfa.delta),
                                  dfa.Sigma, dfa.delta)} :
       /\ separable' = st.Separable
       /\ pc' = IF st.returned THEN "separated" ELSE "separating"
  /\ rounds' = rounds + 1
  /\ UNCHANGED combineVars /\ UNCHANGED rewriteVars /\ UNCHANGED heapVars
  /\ UNCHANGED fixedPointVars
  /\ UNCHANGED simplifyVars /\ UNCHANGED parserVars
  /\ UNCHANGED productVars
  /\ UNCHANGED <<r, r2, nfa, dfa, mdfa, mdfa2, re, eq, eqSw, states, queue>>

NextSeparable == SeparableStart \/ SeparableIter

\* allSeparable runs to completion without yielding
SpecSeparable == InitSeparable /\ [][NextSeparable]_vars
                   /\ WF_vars(NextSeparable)

(***************************************************************************)
(* One call of rewrite with one rule of the catalogue                       *)
(***************************************************************************)
InitRewrite ==
  /\ pc = "term"
  /\ r \in RegExpUpTo(MaxSizeSimplify)
  /\ r2 = None /\ nfa = None /\ dfa = None /\ mdfa = None /\ mdfa2 = None
  /\ re = None /\ eq = None /\ eqSw = None /\ states = {} /\ queue = None
  /\ current = None /\ iterations = 0 /\ warned = FALSE
  /\ dfa2 = None /\ prod = None /\ reachSet = {} /\ empty = FALSE
  /\ witness = None
  /\ input = <<>> /\ tokens = <<>> /\ parsed = None
  /\ ExtraIdle

\* rewrite(r, rules[i]); subst is the Map as match left it
Rewrite ==
  /\ pc = "term"
  /\ \E i \in 1..Len(getRules) :
       /\ rule' = i
       /\ matched' = rewrite(r, getRules[i]).simplified
       /\ re' = rewrite(r, getRules[i]).result
       /\ subst' = match(getRules[i][1], r, EmptyMap).sub
  /\ pc' = "rewritten"
  /\ UNCHANGED combineVars /\ UNCHANGED separableVars
  /\ UNCHANGED heapVars /\ UNCHANGED fixedPointVars
  /\ UNCHANGED simplifyVars /\ UNCHANGED parserVars /\ UNCHANGED productVars
  /\ UNCHANGED <<r, r2, nfa, dfa, mdfa, mdfa2, eq, eqSw, states, queue>>

NextRewrite == Rewrite

SpecRewrite == InitRewrite /\ [][NextRewrite]_vars

(***************************************************************************)
(* Objects and references.  A RecursiveSet, a Map and an automaton are     *)
(* objects: the heap is the sequence of their contents and a reference is  *)
(* an index into it.  An automaton object holds the references of its Q,   *)
(* Sigma, delta and A; the value stored under a key of an NFA's Map is the *)
(* reference of a RecursiveSet.  RecursiveSet.union of the library         *)
(* recursive-set returns a new set.  A composite state of a DFA is a       *)
(* value: no mutating method is called on one in 01-NFA-2-DFA.ts or        *)
(* 07-Minimize.ts.                                                         *)
(***************************************************************************)
\* the trees whose automata are built before the call
MaxSizeHeap == 3

\* new Map(), new RecursiveSet(...), an object literal
newObject(h, v) == [heap |-> Append(h, v), ref |-> Len(h) + 1]

\* m.set(k, v) on the Map object m
mapSetAt(h, m, k, v) == [h EXCEPT ![m] = MapSet(h[m], k, v)]

\* the object literal of an NFA whose Q and A are new sets
nfaObject(h, Q, sigma, delta, q0, A) ==
  LET Qo == newObject(h, Q)
      Ao == newObject(Qo.heap, A)
      F == newObject(Ao.heap, [Q |-> Qo.ref, Sigma |-> sigma,
                               delta |-> delta, q0 |-> q0, A |-> Ao.ref])
  IN [heap |-> F.heap, ref |-> F.ref]

genEmptyNFARef(h, gen, sigma) ==
  LET q0 == gen + 1
      q1 == gen + 2
      delta == newObject(h, EmptyMap)
      F == nfaObject(delta.heap, {q0, q1}, sigma, delta.ref, q0, {q1})
  IN [heap |-> F.heap, ref |-> F.ref, gen |-> gen + 2]

genEpsilonNFARef(h, gen, sigma) ==
  LET q0 == gen + 1
      q1 == gen + 2
      delta == newObject(h, EmptyMap)
      target == newObject(delta.heap, {q1})
      h1 == mapSetAt(target.heap, delta.ref, key(q0, "eps"), target.ref)
      F == nfaObject(h1, {q0, q1}, sigma, delta.ref, q0, {q1})
  IN [heap |-> F.heap, ref |-> F.ref, gen |-> gen + 2]

genCharNFARef(h, gen, sigma, c) ==
  LET q0 == gen + 1
      q1 == gen + 2
      delta == newObject(h, EmptyMap)
      target == newObject(delta.heap, {q1})
      h1 == mapSetAt(target.heap, delta.ref, key(q0, c), target.ref)
      F == nfaObject(h1, {q0, q1}, sigma, delta.ref, q0, {q1})
  IN [heap |-> F.heap, ref |-> F.ref, gen |-> gen + 2]

\* copyDelta without `new Map`: the entries of d2 are written into d1
copyDeltaInPlace(h, d1, d2) ==
  [heap |-> [h EXCEPT ![d1] = h[d2] @@ h[d1]], ref |-> d1]

\* newDelta = new Map(d1), then newDelta.set(k, v) for every entry of d2
copyDeltaRef(h, d1, d2) ==
  LET newDelta == newObject(h, h[d1])
  IN [heap |-> [newDelta.heap EXCEPT ![newDelta.ref] = h[d2] @@ h[d1]],
      ref |-> newDelta.ref]

\* the result shares Sigma with f1 and the accepting set with f2
catenateRef(h, gen, f1, f2) ==
  LET q1 == h[f1].q0
      q3 == h[f2].q0
      q2 == getOnlyElement(h[h[f1].A])
      delta == copyDeltaRef(h, h[f1].delta, h[f2].delta)
      target == newObject(delta.heap, {q3})
      h1 == mapSetAt(target.heap, delta.ref, key(q2, "eps"), target.ref)
      Q == newObject(h1, h1[h1[f1].Q] \cup h1[h1[f2].Q])
      F == newObject(Q.heap, [Q |-> Q.ref, Sigma |-> h1[f1].Sigma,
                              delta |-> delta.ref, q0 |-> q1,
                              A |-> h1[f2].A])
  IN [heap |-> F.heap, ref |-> F.ref, gen |-> gen]

\* targetQ5 is one set, stored under two keys and returned as A
disjunctionRef(h, gen, f1, f2) ==
  LET q1 == h[f1].q0
      q2 == h[f2].q0
      q3 == getOnlyElement(h[h[f1].A])
      q4 == getOnlyElement(h[h[f2].A])
      q0 == gen + 1
      q5 == gen + 2
      delta == copyDeltaRef(h, h[f1].delta, h[f2].delta)
      starts == newObject(delta.heap, {q1, q2})
      h1 == mapSetAt(starts.heap, delta.ref, key(q0, "eps"), starts.ref)
      targetQ5 == newObject(h1, {q5})
      h2 == mapSetAt(targetQ5.heap, delta.ref, key(q3, "eps"), targetQ5.ref)
      h3 == mapSetAt(h2, delta.ref, key(q4, "eps"), targetQ5.ref)
      Q == newObject(h3, {q0, q5} \cup h3[h3[f1].Q] \cup h3[h3[f2].Q])
      F == newObject(Q.heap, [Q |-> Q.ref, Sigma |-> h3[f1].Sigma,
                              delta |-> delta.ref, q0 |-> q0,
                              A |-> targetQ5.ref])
  IN [heap |-> F.heap, ref |-> F.ref, gen |-> gen + 2]

\* targets is one set, stored under two keys
kleeneRef(h, gen, f) ==
  LET q1 == h[f].q0
      q2 == getOnlyElement(h[h[f].A])
      q0 == gen + 1
      q3 == gen + 2
      delta == newObject(h, h[h[f].delta])
      targets == newObject(delta.heap, {q1, q3})
      h1 == mapSetAt(targets.heap, delta.ref, key(q0, "eps"), targets.ref)
      h2 == mapSetAt(h1, delta.ref, key(q2, "eps"), targets.ref)
      Q == newObject(h2, {q0, q3} \cup h2[h2[f].Q])
      A == newObject(Q.heap, {q3})
      F == newObject(A.heap, [Q |-> Q.ref, Sigma |-> h2[f].Sigma,
                              delta |-> delta.ref, q0 |-> q0, A |-> A.ref])
  IN [heap |-> F.heap, ref |-> F.ref, gen |-> gen + 2]

\* RegExp2NFA.toNFA on objects; this.sigma is the reference sigma
RECURSIVE toNFARef(_, _, _, _)
toNFARef(h, x, gen, sigma) ==
  CASE x[1] = "0"   -> genEmptyNFARef(h, gen, sigma)
    [] x[1] = "eps" -> genEpsilonNFARef(h, gen, sigma)
    [] x[1] = "chr" -> genCharNFARef(h, gen, sigma, x[2])
    [] x[1] = "*"   -> LET f == toNFARef(h, x[2], gen, sigma)
                       IN kleeneRef(f.heap, f.gen, f.ref)
    [] x[1] = "cat" -> LET f1 == toNFARef(h, x[2], gen, sigma)
                           f2 == toNFARef(f1.heap, x[3], f1.gen, sigma)
                       IN catenateRef(f2.heap, f2.gen, f1.ref, f2.ref)
    [] x[1] = "+"   -> LET f1 == toNFARef(h, x[2], gen, sigma)
                           f2 == toNFARef(f1.heap, x[3], f1.gen, sigma)
                       IN disjunctionRef(f2.heap, f2.gen, f1.ref, f2.ref)

\* the automaton an NFA object stands for
nfaAt(h, f) ==
  [Q |-> h[h[f].Q], Sigma |-> h[h[f].Sigma],
   delta |-> [k \in DOMAIN h[h[f].delta] |-> h[h[h[f].delta][k]]],
   q0 |-> h[f].q0, A |-> h[h[f].A]]

\* the automaton a DFA object stands for
dfaAt(h, F) ==
  [Q |-> h[h[F].Q], Sigma |-> h[h[F].Sigma], delta |-> h[h[F].delta],
   q0 |-> h[F].q0, A |-> h[h[F].A]]

\* nfa2dfa on objects: newStates is the set `states` that allStates makes
\* and fills, newDelta and newFinal are made empty and filled by set and
\* add; Sigma is shared with the argument
nfa2dfaRef(h, f) ==
  LET d == nfa2dfa(nfaAt(h, f))
      newStates == newObject(h, d.Q)
      newDelta == newObject(newStates.heap, EmptyMap)
      h1 == [newDelta.heap EXCEPT ![newDelta.ref] = d.delta]
      newFinal == newObject(h1, {})
      h2 == [newFinal.heap EXCEPT ![newFinal.ref] = d.A]
      F == newObject(h2, [Q |-> newStates.ref, Sigma |-> h2[f].Sigma,
                          delta |-> newDelta.ref, q0 |-> d.q0,
                          A |-> newFinal.ref])
  IN [heap |-> F.heap, ref |-> F.ref]

\* minimize on objects: `Q = reachable(...)` assigns the local variable of
\* the destructuring, EquivClasses, newAccept and newDelta are made empty
\* and filled by add and set; Sigma is shared with the argument.  A throw
\* returns no reference.
minimizeRef(h, F) ==
  LET m == minimize(dfaAt(h, F))
      EquivClasses == newObject(h, {})
      h1 == [EquivClasses.heap EXCEPT ![EquivClasses.ref] = m.Q]
      newAccept == newObject(h1, {})
      h2 == [newAccept.heap EXCEPT ![newAccept.ref] = m.A]
      newDelta == newObject(h2, EmptyMap)
      h3 == [newDelta.heap EXCEPT ![newDelta.ref] = m.delta]
      G == newObject(h3, [Q |-> EquivClasses.ref, Sigma |-> h3[F].Sigma,
                          delta |-> newDelta.ref, q0 |-> m.q0,
                          A |-> newAccept.ref])
  IN IF hasThrown(m) THEN [heap |-> h, ref |-> 0]
     ELSE [heap |-> G.heap, ref |-> G.ref]

\* the call of the function named fn on the references as
callRef(fn, h, gen, as) ==
  CASE fn = "catenate"    -> catenateRef(h, gen, as[1], as[2])
    [] fn = "disjunction" -> disjunctionRef(h, gen, as[1], as[2])
    [] fn = "kleene"      -> kleeneRef(h, gen, as[1])
    [] fn = "nfa2dfa"     -> nfa2dfaRef(h, as[1])
    [] fn = "minimize"    -> minimizeRef(h, as[1])

\* the heap with the alphabet object alone
sigmaHeap == <<Sigma>>

\* the objects before the call: the automaton of r, and for a function of
\* two automata that of r2, made by one RegExp2NFA; for minimize the DFA of
\* the automaton of r
beforeCall(fn, x1, x2) ==
  LET f1 == toNFARef(sigmaHeap, x1, 0, 1)
      f2 == toNFARef(f1.heap, x2, f1.gen, 1)
      F == nfa2dfaRef(f1.heap, f1.ref)
  IN CASE fn \in {"catenate", "disjunction"} ->
            [heap |-> f2.heap, args |-> <<f1.ref, f2.ref>>, gen |-> f2.gen]
       [] fn \in {"kleene", "nfa2dfa"} ->
            [heap |-> f1.heap, args |-> <<f1.ref>>, gen |-> f1.gen]
       [] fn = "minimize" ->
            [heap |-> F.heap, args |-> <<F.ref>>, gen |-> f1.gen]

InitHeap ==
  /\ pc = "args"
  /\ callee \in {"catenate", "disjunction", "kleene", "nfa2dfa", "minimize"}
  /\ r \in RegExpUpTo(MaxSizeHeap)
  /\ r2 \in IF callee \in {"catenate", "disjunction"}
              THEN RegExpUpTo(MaxSizeHeap) ELSE {None}
  /\ \E b \in {beforeCall(callee, r, r2)} :
       heap = b.heap /\ args = b.args /\ stateCount = b.gen
  /\ ret = 0
  /\ CombineIdle /\ SeparableIdle /\ RewriteIdle /\ FixedPointIdle
  /\ nfa = None /\ dfa = None /\ mdfa = None
  /\ mdfa2 = None /\ re = None /\ eq = None /\ eqSw = None
  /\ states = {} /\ queue = None
  /\ current = None /\ iterations = 0 /\ warned = FALSE
  /\ dfa2 = None /\ prod = None /\ reachSet = {} /\ empty = FALSE
  /\ witness = None
  /\ input = <<>> /\ tokens = <<>> /\ parsed = None

\* callee(args): the objects it makes and writes, and what it returns
Call ==
  /\ pc = "args"
  /\ \E res \in {callRef(callee, heap, stateCount, args)} :
       /\ heap' = res.heap
       /\ ret' = res.ref
  /\ pc' = "returned"
  /\ UNCHANGED <<callee, args, stateCount>>
  /\ UNCHANGED combineVars /\ UNCHANGED separableVars
  /\ UNCHANGED rewriteVars /\ UNCHANGED fixedPointVars
  /\ UNCHANGED simplifyVars /\ UNCHANGED parserVars /\ UNCHANGED productVars
  /\ UNCHANGED <<r, r2, nfa, dfa, mdfa, mdfa2, re, eq, eqSw, states, queue>>

NextHeap == Call

SpecHeap == InitHeap /\ [][NextHeap]_vars

(***************************************************************************)
(* allStates and allStatesFixedPoint called on the same arguments          *)
(***************************************************************************)
\* every transition relation of at most MaxEdges edges over the states
\* 1..MaxNfaStates, every alphabet inside Sigma and every start set; the
\* two functions read neither q0 nor A
InitFixedPoint ==
  /\ pc = "start"
  /\ nfa \in {[Q |-> NfaStates, Sigma |-> Sig, delta |-> deltaOf(E),
                q0 |-> 1, A |-> {1}] :
                 E \in EdgeSetsUpTo(MaxEdges), Sig \in SUBSET Sigma}
  /\ startSet \in SUBSET NfaStates
  /\ fixedPoint = {}
  /\ CombineIdle /\ SeparableIdle /\ RewriteIdle /\ HeapIdle
  /\ r = None /\ r2 = None /\ dfa = None /\ mdfa = None /\ mdfa2 = None
  /\ re = None /\ eq = None /\ eqSw = None /\ states = {} /\ queue = None
  /\ current = None /\ iterations = 0 /\ warned = FALSE
  /\ dfa2 = None /\ prod = None /\ reachSet = {} /\ empty = FALSE
  /\ witness = None
  /\ input = <<>> /\ tokens = <<>> /\ parsed = None

\* allStates(startSet, delta, Sigma)
AllStates ==
  /\ pc = "start"
  /\ states' = allStates(startSet, nfa.delta, nfa.Sigma)
  /\ pc' = "worklist"
  /\ UNCHANGED <<startSet, fixedPoint>>
  /\ UNCHANGED combineVars /\ UNCHANGED separableVars
  /\ UNCHANGED rewriteVars /\ UNCHANGED heapVars
  /\ UNCHANGED simplifyVars /\ UNCHANGED parserVars /\ UNCHANGED productVars
  /\ UNCHANGED <<r, r2, nfa, dfa, mdfa, mdfa2, re, eq, eqSw, queue>>

\* allStatesFixedPoint(startSet, delta, Sigma)
AllStatesFixedPoint ==
  /\ pc = "worklist"
  /\ fixedPoint' = allStatesFixedPoint(startSet, nfa.delta, nfa.Sigma)
  /\ pc' = "both"
  /\ UNCHANGED startSet
  /\ UNCHANGED combineVars /\ UNCHANGED separableVars
  /\ UNCHANGED rewriteVars /\ UNCHANGED heapVars
  /\ UNCHANGED simplifyVars /\ UNCHANGED parserVars /\ UNCHANGED productVars
  /\ UNCHANGED <<r, r2, nfa, dfa, mdfa, mdfa2, re, eq, eqSw, states, queue>>

NextFixedPoint == AllStates \/ AllStatesFixedPoint

SpecFixedPoint == InitFixedPoint /\ [][NextFixedPoint]_vars

(***************************************************************************)
(* Claims of the pipeline                                                  *)
(***************************************************************************)
\* C5: the NFA of toNFA(r) has an accepting run on w exactly when w is in
\* the language of r, for every word up to MaxWordLen; the NFA of the empty
\* set accepts no word
ThompsonCorrect ==
  pc = "nfa" =>
    /\ \A w \in Words : nfaAccepts(nfa, w) <=> InLang(r, w)
    /\ r = EmptySet => \A w \in Words : ~nfaAccepts(nfa, w)

ThompsonWitness ==
  /\ pc = "nfa"
  /\ r = Star(Concat(CharNode("a"), CharNode("b")))
  /\ nfaAccepts(nfa, <<"a", "b", "a", "b">>)
  /\ ~nfaAccepts(nfa, <<"a", "b", "a">>)

\* C4: minimize(nfa2dfa(toNFA(r))) accepts w exactly when w is in the
\* language of r; for a(a+b)*b it accepts ab, aab, aabab and rejects a, b,
\* ba and the empty word
PipelineCorrect ==
  pc = "min" =>
    /\ \A w \in Words : accepts(mdfa, w) <=> InLang(r, w)
    /\ r = ScenarioRegExp =>
         /\ \A w \in {<<"a", "b">>, <<"a", "a", "b">>,
                       <<"a", "a", "b", "a", "b">>} : accepts(mdfa, w)
         /\ \A w \in {<<"a">>, <<"b">>, <<"b", "a">>, <<>>} : ~accepts(mdfa, w)

PipelineWitness ==
  /\ pc = "min"
  /\ r = ScenarioRegExp
  /\ accepts(mdfa, <<"a", "a", "b", "a", "b">>)
  /\ ~accepts(mdfa, <<"b", "a">>)

\* the NFA states reached from some state of M by reading c and then any
\* number of epsilon edges
moveClosure(n, M, c) ==
  epsReach(UNION {n.delta[<<q, c>>] : q \in {p \in M : <<p, c>> \in DOMAIN n.delta}},
           n.delta)

\* C9 as stated: the table of nfa2dfa has an entry for (M, c) only when
\* capitalDelta(M, c) is non-empty, and no entry has the empty set as target
TableOmitsEmptyTargets ==
  pc = "dfa" =>
    /\ \A k \in DOMAIN dfa.delta : dfa.delta[k] # {}
    /\ \A M \in dfa.Q, c \in dfa.Sigma :
         key(M, c) \in DOMAIN dfa.delta <=> capitalDelta(M, c, nfa.delta) # {}

\* C9 as amended: the table of nfa2dfa has an entry for every state M of Q
\* and every symbol c, its target is the set of NFA states reached from M
\* by c, and an empty target is stored as the empty set, which is then a
\* state of Q
TableStoresEveryTarget ==
  pc = "dfa" =>
    /\ DOMAIN dfa.delta = {key(M, c) : M \in dfa.Q, c \in dfa.Sigma}
    /\ \A M \in dfa.Q, c \in dfa.Sigma :
         /\ dfa.delta[key(M, c)] = moveClosure(nfa, M, c)
         /\ moveClosure(nfa, M, c) = {} => {} \in dfa.Q

TableWitness ==
  /\ pc = "dfa"
  /\ r = CharNode("a")
  /\ key(dfa.q0, "b") \in DOMAIN dfa.delta
  /\ dfa.delta[key(dfa.q0, "b")] = {}
  /\ {} \in dfa.Q

(***************************************************************************)
(* Claims of the minimiser                                                 *)
(***************************************************************************)
\* the transition table has an entry for every reachable state and symbol
TotalOnReachable(F) ==
  \A q \in reachable(F.q0, F.Sigma, F.delta), c \in F.Sigma :
     key(q, c) \in DOMAIN F.delta

\* C2: D accepts w exactly when minimize(D) accepts w, for every DFA D, the
\* ones with missing table entries included, and every word up to MaxWordLen
MinimizePreservesLanguage ==
  pc = "min" => \A w \in Words : accepts(dfa, w) <=> accepts(mdfa, w)

\* C7: for a DFA total on its reachable states, distinct states of the
\* minimised automaton are told apart by some word, and two reachable states
\* share a class exactly when no word tells them apart
MinimizeIsMinimal ==
  (pc = "min" /\ TotalOnReachable(dfa)) =>
     /\ \A C1 \in mdfa.Q, C2 \in mdfa.Q :
          C1 # C2 => \E w \in Words :
                       acceptsFrom(mdfa, C1, w) # acceptsFrom(mdfa, C2, w)
     /\ \A p \in reachable(dfa.q0, dfa.Sigma, dfa.delta),
           q \in reachable(dfa.q0, dfa.Sigma, dfa.delta) :
          (\E C \in mdfa.Q : p \in C /\ q \in C)
            <=> (\A w \in Words : acceptsFrom(dfa, p, w) <=> acceptsFrom(dfa, q, w))

MinimalWitness ==
  /\ pc = "min"
  /\ TotalOnReachable(dfa)
  /\ Cardinality(reachable(dfa.q0, dfa.Sigma, dfa.delta)) = 3
  /\ Cardinality(mdfa.Q) = 2
  /\ \E C \in mdfa.Q : Cardinality(C) = 2

\* C8: minimising a minimised automaton keeps the number of states, for
\* every DFA
MinimizeIdempotentSize ==
  pc = "min2" => Cardinality(mdfa2.Q) = Cardinality(mdfa.Q)

(***************************************************************************)
(* Claims of the round trip                                                *)
(***************************************************************************)
\* C1: regExpEquiv(r, dfa2regexp(nfa2dfa(toNFA(r))), Sigma) is true
RoundTripEquivalent ==
  pc = "roundtrip" => eq = TRUE

RoundTripWitness ==
  /\ pc = "roundtrip"
  /\ r = Concat(CharNode("a"), Star(CharNode("b")))
  /\ re # r
  /\ eq = TRUE

(***************************************************************************)
(* Claims of the equivalence check                                         *)
(***************************************************************************)
\* C3: regExpEquiv(r, r2, Sigma) is true exactly when r and r2 have the same
\* words up to MaxWordLen; it is true for a+b and b+a, for (a*)* and a*, and
\* for 0a and 0
EquivDecidesLanguageEquality ==
  pc = "eq" =>
    /\ eq <=> (Lang(r) = Lang(r2))
    /\ (r = Union(CharNode("a"), CharNode("b"))
          /\ r2 = Union(CharNode("b"), CharNode("a"))) => eq
    /\ (r = Star(Star(CharNode("a"))) /\ r2 = Star(CharNode("a"))) => eq
    /\ (r = Concat(EmptySet, CharNode("a")) /\ r2 = EmptySet) => eq

EquivWitness ==
  /\ pc = "eq"
  /\ r = Star(Star(CharNode("a")))
  /\ r2 = Star(CharNode("a"))
  /\ eq = TRUE

\* C6: regExpEquiv(r, r, Sigma) is true, and regExpEquiv(r, r2, Sigma) equals
\* regExpEquiv(r2, r, Sigma)
EquivReflexiveSymmetric ==
  /\ (pc = "eq" /\ r = r2) => eq = TRUE
  /\ pc = "eqsw" => eq = eqSw

EquivSymmetricWitness ==
  /\ pc = "eqsw"
  /\ r = CharNode("a")
  /\ r2 = Union(CharNode("a"), CharNode("b"))
  /\ eq = FALSE
  /\ eqSw = FALSE

(***************************************************************************)
(* Claims of the worklist                                                  *)
(***************************************************************************)
\* the composite states pushed by the step from queue to queue'
added == SubSeq(queue', Len(queue), Len(queue'))

\* a worklist iteration pushes only composite states that were not in
\* states, each of them once, and records them in states
AddsEachOnce ==
  (pc = "loop" /\ pc' = "loop") =>
    /\ \A i \in 1..Len(added) : added[i] \notin states
    /\ \A i, j \in 1..Len(added) : i # j => added[i] # added[j]
    /\ states' = states \cup {added[i] : i \in 1..Len(added)}

\* C10: the subset construction terminates; a worklist iteration adds a
\* composite state at most once; every composite state found is a subset of
\* nfa.Q; the automaton built has at most 2^|nfa.Q| states
SubsetConstructionBounded ==
  /\ [](pc \in {"loop", "done"} => \A M \in states : M \subseteq nfa.Q)
  /\ [](pc = "done" => /\ dfa = nfa2dfa(nfa)
                       /\ Cardinality(dfa.Q) <= 2^Cardinality(nfa.Q))
  /\ [][AddsEachOnce]_vars
  /\ <>(pc = "done")

\* a finished construction with four composite states, one of them found
\* again by a later iteration
SubsetConstructionWitness ==
  /\ pc = "done"
  /\ Cardinality(dfa.Q) >= 4
  /\ \E M \in dfa.Q : Cardinality(M) >= 2
  /\ \E M \in dfa.Q : \E c \in Sigma : dfa.delta[key(M, c)] = dfa.q0

(***************************************************************************)
(* Claims of simplify                                                      *)
(***************************************************************************)
\* C11: simplify(simplify(r)) is structurally equal to simplify(r)
SimplifyIdempotent ==
  /\ pc \in {"simplified", "again"} => re = simplify(r)
  /\ pc = "again" => deepEquals(r2, re) /\ r2 = re

\* (0 + b)eps is simplified to b in more than one pass, and simplified again
SimplifyIdempotentWitness ==
  /\ pc = "again"
  /\ r = Concat(Union(EmptySet, CharNode("b")), Epsilon)
  /\ re = CharNode("b")
  /\ r2 = re

\* a pass that does not return changes the tree into simplifyOnce of it
PassChangesTree ==
  (pc = "pass" /\ pc' = "pass") =>
    /\ current' = simplifyOnce(current, getRules)
    /\ ~deepEquals(current, current')
    /\ iterations' = iterations + 1

\* a pass that leaves the tree unchanged returns it
UnchangedPassReturns ==
  (pc = "pass" /\ deepEquals(current, simplifyOnce(current, getRules))) =>
    /\ pc' = "simplified"
    /\ re' = current
    /\ warned' = FALSE

Nfa2DfaReproducible ==
  /\ pc \in {"first", "second"} => dfa = nfa2dfa(nfa)
  /\ pc = "second" =>
       /\ mdfa.Q = dfa.Q
       /\ mdfa.q0 = dfa.q0
       /\ mdfa.A = dfa.A
       /\ DOMAIN mdfa.delta = DOMAIN dfa.delta
       /\ \A k \in DOMAIN dfa.delta : mdfa.delta[k] = dfa.delta[k]

\* two calls on an NFA whose two symbols lead to different composite states
Nfa2DfaReproducibleWitness ==
  /\ pc = "second"
  /\ Cardinality(dfa.Q) >= 4
  /\ dfa.delta[key(dfa.q0, "a")] # dfa.delta[key(dfa.q0, "b")]
  /\ mdfa = dfa

(***************************************************************************)
(* Claims of the product automaton                                         *)
(***************************************************************************)
\* C13: fsm_complement(D1, D2) accepts a word exactly when D1 accepts it and
\* D2 does not, for every word up to MaxWordLen and DFAs with missing
\* transitions included; it starts in (D1.q0, D2.q0) and accepts in
\* D1.A x (D2.Q minus D2.A)
ProductRecognisesDifference ==
  pc = "product" =>
    /\ \A w \in Words : accepts(prod, w) <=> (accepts(dfa, w) /\ ~accepts(dfa2, w))
    /\ prod.q0 = <<dfa.q0, dfa2.q0>>
    /\ prod.A = dfa.A \X (dfa2.Q \ dfa2.A)

\* the word a result of findWitness stands for
wordOf(res) == IF res = <<"eps">> THEN <<>> ELSE res

\* C14: is_empty(F) is true exactly when no accepting state is reached from
\* F.q0, and its loop terminates; findWitness(F) is null exactly when
\* is_empty(F) is true and is otherwise a shortest accepted word, "eps" for
\* the empty word
EmptinessDecided ==
  /\ <>(pc = "emptied")
  /\ [](pc \in {"emptied", "witnessed"} =>
          /\ empty = is_empty(prod)
          /\ empty <=> ~\E w \in Words : accepts(prod, w))
  /\ [](pc = "witnessed" =>
          /\ (witness = Null) <=> empty
          /\ (witness = <<"eps">>) <=> (prod.q0 \in prod.A)
          /\ witness # Null =>
               /\ accepts(prod, wordOf(witness))
               /\ \A v \in Words :
                    accepts(prod, v) => Len(v) >= Len(wordOf(witness)))

\* an accepting state found by the third pass of the loop; the witness has
\* two letters
EmptinessWitness ==
  /\ pc = "witnessed"
  /\ empty = FALSE
  /\ Len(witness) = 2
  /\ witness # <<"eps">>

\* C15: an input string holding a character that is no token and no
\* whitespace makes parse fail; no AST is returned
ForeignCharactersRejected ==
  (pc = "parsed" /\ \E i \in 1..Len(input) : input[i] \in Foreign)
    => ~parsed.ok

\* the leaves of a tree from left to right, as tokens
RECURSIVE leaves(_)
leaves(x) ==
  CASE x[1] = "0"   -> <<"empty">>
    [] x[1] = "eps" -> <<"eps">>
    [] x[1] = "chr" -> <<x[2]>>
    [] x[1] = "*"   -> leaves(x[2])
    [] OTHER        -> leaves(x[2]) \o leaves(x[3])

\* the number of nodes of a tree with the given tag
RECURSIVE nodesOf(_, _)
nodesOf(x, tag) ==
  (IF x[1] = tag THEN 1 ELSE 0)
    + (CASE x[1] \in {"0", "eps", "chr"} -> 0
         [] x[1] = "*" -> nodesOf(x[2], tag)
         [] OTHER -> nodesOf(x[2], tag) + nodesOf(x[3], tag))

occurrences(toks, t) == Len(SelectSeq(toks, LAMBDA u : u = t))

isAtomToken(t) == t \in Letters \/ t \in {"empty", "eps"}

\* some ")" of toks has no "(" before it to match
unmatchedClose(toks) ==
  \E n \in 1..Len(toks) :
    occurrences(SubSeq(toks, 1, n), ")") > occurrences(SubSeq(toks, 1, n), "(")

isSuffix(x, toks) ==
  Len(x) <= Len(toks) /\ x = SubSeq(toks, Len(toks) - Len(x) + 1, Len(toks))

\* a returned AST accounts for every token; an error names the problem and
\* a suffix of the tokens and carries no tree
ReturnsAllOrThrows ==
  pc = "parsed" =>
    /\ parsed.ok =>
         /\ parsed.rest = <<>>
         /\ leaves(parsed.tree) = SelectSeq(tokens, isAtomToken)
         /\ nodesOf(parsed.tree, "*") = occurrences(tokens, "*")
         /\ nodesOf(parsed.tree, "+") = occurrences(tokens, "+")
         /\ nodesOf(parsed.tree, "cat") + nodesOf(parsed.tree, "+") + 1
              = Len(leaves(parsed.tree))
         /\ occurrences(tokens, "(") = occurrences(tokens, ")")
    /\ ~parsed.ok =>
         /\ parsed.msg # <<>>
         /\ parsed.tree = None
         /\ isSuffix(parsed.rest, tokens)

\* the inputs that throw: empty input, input ending after one of the tokens
\* of operators or after "(", an unmatched ")", a trailing token
ThrowsOn(operators) ==
  pc = "parsed" =>
    /\ tokens = <<>> => ~parsed.ok
    /\ (tokens # <<>> /\ tokens[Len(tokens)] \in operators \cup {"("})
         => ~parsed.ok
    /\ unmatchedClose(tokens) => ~parsed.ok
    /\ (parseRegExp(tokens).ok /\ parseRegExp(tokens).rest # <<>>)
         => ~parsed.ok

OneAcceptingState ==
  pc = "nfa" =>
    /\ nfa \in toNFACalls(r, 0, Sigma)
    /\ \A f \in toNFACalls(r, 0, Sigma) :
         Cardinality(f.A) = 1 /\ f.A \subseteq f.Q

\* a(a+b)*b: eight calls of toNFA, the outermost included
OneAcceptingStateWitness ==
  /\ pc = "nfa"
  /\ r = ScenarioRegExp
  /\ Cardinality(toNFACalls(r, 0, Sigma)) = 8
  /\ Cardinality(nfa.A) = 1

\* C19: the classes computed by minimize are a partition of the reachable
\* states, for every DFA, the ones with missing table entries included:
\* no class is empty, every reachable state is in exactly one class, and
\* distinct classes are disjoint
ClassesArePartition ==
  pc = "min" =>
    /\ \A C \in mdfa.Q : C # {}
    /\ \A q \in reachable(dfa.q0, dfa.Sigma, dfa.delta) :
         Cardinality({C \in mdfa.Q : q \in C}) = 1
    /\ \A C1 \in mdfa.Q, C2 \in mdfa.Q : C1 # C2 => (C1 \cap C2) = {}
    /\ UNION mdfa.Q = reachable(dfa.q0, dfa.Sigma, dfa.delta)

\* C20: the table of the minimised automaton does not depend on the
\* representative: two states of one class have an entry for the same
\* symbols and their targets share a class, so the nested loops write the
\* same table whatever the order of the states and of the symbols
RepresentativeIndependent ==
  pc = "min" =>
    /\ \A C \in mdfa.Q, c \in dfa.Sigma : \A p \in C, q \in C :
         key(p, c) \in DOMAIN dfa.delta =>
           /\ key(q, c) \in DOMAIN dfa.delta
           /\ \E T \in mdfa.Q : /\ dfa.delta[key(p, c)] \in T
                                 /\ dfa.delta[key(q, c)] \in T
    /\ \A qs \in Orders(reachable(dfa.q0, dfa.Sigma, dfa.delta)),
          cs \in Orders(dfa.Sigma) :
         newDeltaLoop(EmptyMap, pairsInOrder(qs, cs), dfa.delta, mdfa.Q)
           = mdfa.delta

\* q0 is a state and every entry of the table leads to a state
WellFormed(F) ==
  /\ F.q0 \in F.Q
  /\ \A k \in DOMAIN F.delta : F.delta[k] \in F.Q

\* C21: on a well-formed DFA minimize throws nothing: no pair (q, q) is
\* separable, every class holds the state it was built for, a class holds
\* q0, no class is empty, and every state of Q and every target is in a class
MinimizeNeverFatal ==
  WellFormed(dfa) =>
    /\ pc # "failed"
    /\ pc = "min" =>
         LET Q == reachable(dfa.q0, dfa.Sigma, dfa.delta)
             Separable == allSeparable(Q, dfa.A, dfa.Sigma, dfa.delta)
         IN /\ ~hasThrown(mdfa)
            /\ \A q \in Q : <<q, q>> \notin Separable
            /\ \A q \in Q : q \in {p \in Q : <<p, q>> \notin Separable}
            /\ {p \in Q : <<p, dfa.q0>> \notin Separable} \in mdfa.Q
            /\ {} \notin mdfa.Q
            /\ minimizeThrown(Q, dfa.Sigma, dfa.delta, dfa.q0, mdfa.Q) = {}

\* three reachable states, one of them accepting and one without entries,
\* in three classes
MinimizeNeverFatalWitness ==
  /\ pc = "min"
  /\ WellFormed(dfa)
  /\ Cardinality(reachable(dfa.q0, dfa.Sigma, dfa.delta)) = 3
  /\ \E q \in reachable(dfa.q0, dfa.Sigma, dfa.delta) :
       \A c \in dfa.Sigma : key(q, c) \notin DOMAIN dfa.delta
  /\ Cardinality(mdfa.Q) = 3
  /\ Cardinality(mdfa.A) = 1

\* the automata whose accepting state the combinator relies on
argumentsOf(o) == IF o = "kleene" THEN {arg1} ELSE {arg1, arg2}

\* C22: a call of catenate, disjunction or kleene with an argument whose
\* accepting set has no state, or two or more, fails; no NFA is produced
SingleAcceptEnforced ==
  (pc \in {"combined", "failed"}
     /\ \E f \in argumentsOf(op) : Cardinality(f.A) # 1)
    => pc = "failed"

RECURSIVE subterms(_)
subterms(x) ==
  {x} \cup (CASE x[1] = "*" -> subterms(x[2])
              [] x[1] \in {"cat", "+"} -> subterms(x[2]) \cup subterms(x[3])
              [] OTHER -> {})

\* the names of the variables of a pattern
varsOf(x) == {t[2] : t \in {u \in subterms(x) : u[1] = "var"}}

\* C24: match is non-linear: a rule rewrites a term exactly when some
\* substitution of its variables, one subtree per name, turns the left-hand
\* side into the term; the substitution match leaves binds exactly the
\* variables of the rule, so nothing is carried over from another call; and
\* R+R -> R rewrites Union(x, y) exactly when x and y are structurally equal
MatchNonLinear ==
  pc = "rewritten" =>
    LET lhs == getRules[rule][1]
        rhs == getRules[rule][2]
    IN /\ matched <=> \E sg \in [varsOf(lhs) -> subterms(r)] :
                          apply(lhs, sg) = r
       /\ matched => /\ DOMAIN subst = varsOf(lhs)
                      /\ apply(lhs, subst) = r
                      /\ re = apply(rhs, subst)
       /\ ~matched => re = r
       /\ rule = 3 =>
            IF r[1] = "+"
              THEN /\ matched <=> deepEquals(r[2], r[3])
                   /\ matched <=> (r[2] = r[3])
                   /\ matched => re = r[2]
              ELSE ~matched

\* R+R -> R on a* + a*
MatchNonLinearWitness ==
  /\ pc = "rewritten"
  /\ rule = 3
  /\ r = Union(Star(CharNode("a")), Star(CharNode("a")))
  /\ matched
  /\ subst = MapSet(EmptyMap, "R", Star(CharNode("a")))
  /\ re = Star(CharNode("a"))

\* some rule of the catalogue rewrites the term at its root
matchesRule(term) == firstRule(term, getRules, 1) # 0

objectsOf(h, f, isNFA) ==
  {f, h[f].Q, h[f].Sigma, h[f].delta, h[f].A}
    \cup (IF isNFA THEN {h[h[f].delta][k] : k \in DOMAIN h[h[f].delta]}
          ELSE {})

hasIncoming(f, q) == \E k \in DOMAIN f.delta : q \in f.delta[k]

\* some edge leaves q
hasOutgoing(f, q) == \E k \in DOMAIN f.delta : k[1] = q

\* a write of the call c finds its key in the map: an entry of f2.delta
\* copied over one of f1.delta, or a delta.set on a key that was copied or
\* written before
replacesEntry(c) ==
  LET ks == setKeys(c)
      copied == DOMAIN c.f1.delta \cup DOMAIN c.f2.delta
  IN \/ c.fn # "kleene" /\ DOMAIN c.f1.delta \cap DOMAIN c.f2.delta # {}
     \/ \E i \in DOMAIN ks :
          ks[i] \in copied \cup {ks[j] : j \in 1..(i - 1)}

\* C27: during one toNFA call the two automata handed to catenate or
\* disjunction have disjoint state sets, the states a combinator takes from
\* the generator are in neither, every constructed automaton has an
\* accepting state without outgoing edge and a start state without incoming
\* edge, and no write to a transition map replaces an entry
NoTransitionOverwritten ==
  pc = "nfa" =>
    /\ \A c \in combinatorCalls(r, 0, Sigma) :
         /\ c.fn # "kleene" => c.f1.Q \cap c.f2.Q = {}
         /\ \A q \in c.f1.Q \cup c.f2.Q : q <= c.gen
         /\ ~replacesEntry(c)
    /\ \A f \in toNFACalls(r, 0, Sigma) :
         /\ \A q \in f.A : ~hasOutgoing(f, q)
         /\ ~hasIncoming(f, f.q0)

\* a(a+b)*b: four calls of combinators, the disjunction a+b and the kleene
\* around it among them, seven writes with delta.set, 12 states
NoTransitionOverwrittenWitness ==
  /\ pc = "nfa"
  /\ r = ScenarioRegExp
  /\ Cardinality(combinatorCalls(r, 0, Sigma)) = 4
  /\ \E c \in combinatorCalls(r, 0, Sigma) :
       c.fn = "kleene" /\ Len(setKeys(c)) = 2 /\ c.gen = 8
  /\ Cardinality(nfa.Q) = 12


\* C28: the DFA returned by nfa2dfa is closed and well-formed: q0 is the
\* epsilon closure of the NFA's start state and is in Q, A is a subset of Q,
\* every state of Q is reached from q0 by following the table, the table has
\* an entry for every pair of Q x Sigma, every target is in Q, a state is
\* accepting exactly when it holds an accepting NFA state, and the empty
\* composite state, when in Q, is a non-accepting sink
DfaClosedWellFormed ==
  pc = "done" =>
    /\ dfa.q0 = epsClosure(nfa.q0, nfa.delta)
    /\ dfa.q0 \in dfa.Q
    /\ dfa.A \subseteq dfa.Q
    /\ reachable(dfa.q0, dfa.Sigma, dfa.delta) = dfa.Q
    /\ DOMAIN dfa.delta = {key(M, c) : M \in dfa.Q, c \in dfa.Sigma}
    /\ \A k \in DOMAIN dfa.delta : dfa.delta[k] \in dfa.Q
    /\ \A M \in dfa.Q : M \in dfa.A <=> \E q \in M : q \in nfa.A
    /\ {} \in dfa.Q =>
         /\ {} \notin dfa.A
         /\ \A c \in dfa.Sigma : dfa.delta[key({}, c)] = {}

\* a finished construction whose DFA has the empty composite state, an
\* accepting and a non-accepting non-empty state, and a state of two NFA
\* states
DfaClosedWellFormedWitness ==
  /\ pc = "done"
  /\ {} \in dfa.Q
  /\ dfa.A # {}
  /\ \E M \in dfa.Q \ dfa.A : M # {}
  /\ \E M \in dfa.A : Cardinality(M) >= 2
  /\ Cardinality(dfa.Q) >= 4


\* C29: allStates and allStatesFixedPoint return equal sets of composite
\* states, for every transition relation, alphabet and start set
ReachableAlgorithmsAgree ==
  pc = "both" => states = fixedPoint

\* both have returned five composite states from a start set of two NFA
\* states: the fixed-point loop made more than one pass
ReachableAlgorithmsAgreeWitness ==
  /\ pc = "both"
  /\ Cardinality(startSet) = 2
  /\ Cardinality(fixedPoint) = 5
  /\ fixedPoint # allStatesFixedPointOnePass(startSet, nfa.delta, nfa.Sigma)
  /\ {} \in states


(***************************************************************************)
(* Every rule of the catalogue applied to terms it matches, and simplify   *)
(* on the same terms                                                       *)
(***************************************************************************)
\* the trees put for the variables of a left-hand side
MaxSizeInstance == 2

\* the trees of at most MaxSizeInstance + 2 nodes and, for every rule of the
\* catalogue, its left-hand side with trees for its variables
ruleInstances(i) ==
  {apply(getRules[i][1], s) :
     s \in [varsOf(getRules[i][1]) -> RegExpUpTo(MaxSizeInstance)]}

InitPreserve ==
  /\ pc = "term"
  /\ r \in RegExpUpTo(MaxSizeInstance + 2)
            \cup UNION {ruleInstances(i) : i \in 1..Len(getRules)}
  /\ r2 = None /\ nfa = None /\ dfa = None /\ mdfa = None /\ mdfa2 = None
  /\ re = None /\ eq = None /\ eqSw = None /\ states = {} /\ queue = None
  /\ current = None /\ iterations = 0 /\ warned = FALSE
  /\ dfa2 = None /\ prod = None /\ reachSet = {} /\ empty = FALSE
  /\ witness = None
  /\ input = <<>> /\ tokens = <<>> /\ parsed = None
  /\ ExtraIdle

\* simplify(r), and regExpEquiv(r, simplify(r), Sigma) and, when the rule
\* tried before has rewritten r to re, regExpEquiv(r, re, Sigma)
SimplifyAndCompare ==
  /\ pc = "rewritten"
  /\ current' = simplify(r)
  /\ eq' = regExpEquiv(r, current', Sigma)
  /\ eqSw' = regExpEquiv(r, re, Sigma)
  /\ pc' = "compared"
  /\ UNCHANGED <<iterations, warned>>
  /\ UNCHANGED extraVars /\ UNCHANGED parserVars /\ UNCHANGED productVars
  /\ UNCHANGED <<r, r2, nfa, dfa, mdfa, mdfa2, re, states, queue>>

NextPreserve == Rewrite \/ SimplifyAndCompare

SpecPreserve == InitPreserve /\ [][NextPreserve]_vars

\* C30: simplify(r) denotes the language of r, regExpEquiv(r, simplify(r),
\* Sigma) is true, and the term a rule of the catalogue makes of r denotes
\* the language of r
SimplifyPreservesLanguage ==
  pc = "compared" =>
    /\ eq = TRUE
    /\ Lang(current) = Lang(r)
    /\ matched => eqSw = TRUE /\ Lang(re) = Lang(r)

\* the last rule of the catalogue, (R S*)(eps + S) -> R S*, has rewritten
\* (a b*)(eps + b) to a b*, and simplify has returned a b* as well
SimplifyPreservesLanguageWitness ==
  /\ pc = "compared"
  /\ rule = Len(getRules)
  /\ matched
  /\ r = Concat(Concat(CharNode("a"), Star(CharNode("b"))),
                Union(Epsilon, CharNode("b")))
  /\ re = Concat(CharNode("a"), Star(CharNode("b")))
  /\ current = re
  /\ eq = TRUE

=============================================================================
